---------------------------- MODULE Spec2Model ----------------------------
(***************************************************************************)
(* A model of lenticular-lab: the lens geometry (calculateFOV) and the     *)
(* simulation view (renderSimulationFrame) of src/physics.ts, the          *)
(* interlacer (generateLenticularImage), the calibration chart             *)
(* (generateCalibrationChart) and the TIFF encoder (createTiffBlob) of     *)
(* src/lenticular-engine.ts, and the debounced generation of the App       *)
(* (src/index.tsx and src/unnamed/part_000).                               *)
(*                                                                         *)
(* Each component has a specification of its own (SpecFov, SpecTiff,       *)
(* SpecInterlace, SpecSim, SpecPass, SpecChart, SpecApp, SpecLab;          *)
(* SpecGenerate runs any one of the three calls that write the output      *)
(* canvas): its Init draws the call's inputs from small sets and its       *)
(* actions are the steps of the call.  The variables of the other          *)
(* components stay idle.                                                   *)
(*                                                                         *)
(* Numbers.  The source computes in IEEE doubles; TLC has integers only.   *)
(*  - lengths of the lens geometry are in tenths of a micron;              *)
(*  - angles, sines and the refractive index are fixed point with FP       *)
(*    units to 1 (so 1e-4 rad, 1e-4);                                      *)
(*  - the field of view is in hundredths of a degree;                      *)
(*  - pixel positions of the interlacer are exact rationals over the       *)
(*    common denominator lpi * frameCount;                                 *)
(*  - a value written to a 32-bit TIFF field is kept as two base-2^16      *)
(*    limbs, so that values of 2^32 and more can be told from their        *)
(*    truncation.                                                          *)
(***************************************************************************)
EXTENDS Integers, Sequences, FiniteSets, TLC

VARIABLES
    fovArgs,    \* the arguments of the calculateFOV call
    fovPc,      \* "idle", "ready" before the call, "done" after it
    fovResult,  \* the value calculateFOV returned (hundredths of a degree)
    tiffArgs,   \* the canvas raster and the densities createTiffBlob is given
    tiffPc,     \* "idle", "ready" before the call, "done" after it
    tiffBytes,  \* the buffer createTiffBlob returned, a function from offsets
    genArgs,    \* the frames and settings generateLenticularImage is given
    genPc,      \* "idle", "ready", "loading" (at the await), "done", "failed"
    canvas,     \* the output canvas: its size, its pixels, the marks on it
    genUrl,     \* the image the call returned (the canvas at toDataURL)
    simArgs,    \* the arguments of the renderSimulationFrame call
    simPc,      \* "idle", "ready" before the call, "done" after it
    surface,    \* the simulation canvas: the drawing commands applied to it
    chartArgs,  \* the settings generateCalibrationChart is given
    chartPc,    \* "idle", "ready" before the call, "done" after it
    chartUrl,   \* the image generateCalibrationChart returned
    app         \* the App: its React state, its timer and its pending calls

fovVars == <<fovArgs, fovPc, fovResult>>
tiffVars == <<tiffArgs, tiffPc, tiffBytes>>
genVars == <<genArgs, genPc, canvas, genUrl>>
simVars == <<simArgs, simPc, surface>>
chartVars == <<chartArgs, chartPc, chartUrl>>
vars == <<fovArgs, fovPc, fovResult, tiffArgs, tiffPc, tiffBytes,
          genArgs, genPc, canvas, genUrl, simArgs, simPc, surface,
          chartArgs, chartPc, chartUrl, app>>

\* The values a component's variables keep while another component runs.
FovIdle == fovArgs = <<>> /\ fovPc = "idle" /\ fovResult = 0
TiffIdle == tiffArgs = <<>> /\ tiffPc = "idle" /\ tiffBytes = <<>>
GenIdle == genArgs = <<>> /\ genPc = "idle" /\ canvas = <<>> /\ genUrl = <<>>
SimIdle == simArgs = <<>> /\ simPc = "idle" /\ surface = <<>>
ChartIdle == chartArgs = <<>> /\ chartPc = "idle" /\ chartUrl = <<>>
AppIdle == app = <<>>

---------------------------------------------------------------------------
(* Fixed-point arithmetic standing for Math.sqrt, Math.sin, Math.asin and  *)
(* Math.atan.                                                              *)

FP == 10^4
PiFP == (31416 * FP) \div 10^4
HalfPiFP == PiFP \div 2

Abs(x) == IF x < 0 THEN -x ELSE x

\* Quotient rounded toward zero, as a double division followed by a cut.
Quot(a, b) == IF a < 0 THEN -((-a) \div b) ELSE a \div b

RECURSIVE SqrtSearch(_, _, _)
SqrtSearch(v, lo, hi) ==
    IF lo >= hi THEN lo
    ELSE LET mid == (lo + hi + 1) \div 2
         IN  IF mid * mid <= v THEN SqrtSearch(v, mid, hi)
                               ELSE SqrtSearch(v, lo, mid - 1)

\* Math.sqrt on a non-negative integer: the integer part of the root.
Sqrt(v) == SqrtSearch(v, 0, 46340)

\* sin x for 0 <= x <= pi/2, by the Taylor polynomial to x^11 in Horner form.
SinPos(x) ==
    LET x2 == (x * x) \div FP
        t5 == FP - (x2 * FP) \div (110 * FP)
        t4 == FP - (x2 * t5) \div (72 * FP)
        t3 == FP - (x2 * t4) \div (42 * FP)
        t2 == FP - (x2 * t3) \div (20 * FP)
        t1 == FP - (x2 * t2) \div (6 * FP)
    IN  (x * t1) \div FP

\* Math.sin on [-pi/2, pi/2].
Sin(x) == IF x < 0 THEN -SinPos(-x) ELSE SinPos(x)

Cos(x) == SinPos(HalfPiFP - Abs(x))

RECURSIVE AsinSearch(_, _, _)
AsinSearch(s, lo, hi) ==
    IF lo >= hi THEN lo
    ELSE LET mid == (lo + hi + 1) \div 2
         IN  IF SinPos(mid) <= s THEN AsinSearch(s, mid, hi)
                                 ELSE AsinSearch(s, lo, mid - 1)

\* Math.asin on [-1, 1]: the largest angle whose sine does not exceed s.
Asin(s) == IF s >= FP THEN HalfPiFP
           ELSE IF s <= -FP THEN -HalfPiFP
           ELSE IF s < 0 THEN -AsinSearch(-s, 0, HalfPiFP)
           ELSE AsinSearch(s, 0, HalfPiFP)

RECURSIVE AtanSearch(_, _, _, _)
AtanSearch(y, x, lo, hi) ==
    IF lo >= hi THEN lo
    ELSE LET mid == (lo + hi + 1) \div 2
         IN  IF SinPos(mid) * x <= y * Cos(mid) THEN AtanSearch(y, x, mid, hi)
                                                ELSE AtanSearch(y, x, lo, mid - 1)

\* Math.atan(y / x) for y > 0 and x > 0: the largest angle whose tangent
\* does not exceed y / x.  The quotient is kept as the pair (y, x).
Atan(y, x) == AtanSearch(y, x, 0, HalfPiFP)

---------------------------------------------------------------------------
(* calculateFOV, src/physics.ts:8-41.                                      *)

\* 1.0003, the index of air.
n_air == 10003

\* 25400 microns to the inch, in tenths of a micron.
MicronsPerInch == 254000

\* What 25400 / 0 evaluates to: a pitch above every finite length.
Infinity == 2 * 10^9

\* const p = 25400 / lpi
Pitch(lpi) == IF lpi = 0 THEN Infinity
              ELSE IF lpi < 0 THEN -(MicronsPerInch \div (-lpi))
              ELSE MicronsPerInch \div lpi

\* const A_rad = Math.asin(p / (2 * r))
HalfAngle(p, r) == Asin((p * FP) \div (2 * r))

\* const f = r - Math.sqrt(r * r - (p / 2) * (p / 2))
Sagitta(p, r) == r - Sqrt(r * r - (p * p) \div 4)

\* const sinI = (n * Math.sin(R_rad)) / n_air
SnellSine(n, R_rad) == Quot(n * Sin(R_rad), n_air)

\* return (O_rad * 180 / Math.PI), in hundredths of a degree
ToDegrees(O_rad) == Quot(O_rad * 180 * 100, PiFP)

RadiusOrPitchGuard(p, r) == r <= 0 \/ p <= 0

\* A slip: the half pitch compared with the diameter.
DiameterGuardHalfPitch(p, r) == p > 4 * r

DiameterGuard(p, r) == p > 2 * r

\* A slip: a derived thickness of exactly 0 let through.
ThicknessGuardStrict(h) == h < 0

ThicknessGuard(h) == h <= 0

ReflectionGuard(sinI) == Abs(sinI) > FP

calculateFOV(lpi, radiusMicrons, thicknessMicrons, refractiveIndex) ==
    LET p == Pitch(lpi)
        r == radiusMicrons
        e == thicknessMicrons
        n == refractiveIndex
    IN  IF RadiusOrPitchGuard(p, r) THEN 0
        ELSE IF DiameterGuard(p, r) THEN 0
        ELSE LET A_rad == HalfAngle(p, r)
                 f == Sagitta(p, r)
                 h == e - f
             IN  IF ThicknessGuard(h) THEN 0
                 ELSE LET R_rad == A_rad - Atan(p, h)
                          sinI == SnellSine(n, R_rad)
                      IN  IF ReflectionGuard(sinI) THEN 0
                          ELSE LET I_rad == Asin(sinI)
                                   O_rad == 2 * (A_rad - I_rad)
                               IN  ToDegrees(O_rad)

\* The arguments the model calls calculateFOV with.  lpi in lines per inch,
\* the lengths in tenths of a micron, the index in FP units.
LpiValues == {-100, 0, 40, 50, 100, 127, 200}
RadiusValues == {-1270, 0, 1270, 1300, 2540, 4000}
ThicknessValues == {-100, 0, 200, 1180, 1270, 1280, 4570, 8000, 30000}
IndexValues == {10000, 15600, 30000}

FovInit ==
    /\ fovArgs \in [lpi : LpiValues, radiusMicrons : RadiusValues,
                    thicknessMicrons : ThicknessValues,
                    refractiveIndex : IndexValues]
    /\ fovPc = "ready"
    /\ fovResult = 0
    /\ TiffIdle
    /\ GenIdle
    /\ SimIdle
    /\ ChartIdle
    /\ AppIdle

FovCall ==
    /\ fovPc = "ready"
    /\ fovResult' = calculateFOV(fovArgs.lpi, fovArgs.radiusMicrons,
                                 fovArgs.thicknessMicrons,
                                 fovArgs.refractiveIndex)
    /\ fovPc' = "done"
    /\ UNCHANGED <<fovArgs, tiffVars, genVars, simVars, chartVars, app>>

FovNext == FovCall

SpecFov == FovInit /\ [][FovNext]_vars

---------------------------------------------------------------------------
(* createTiffBlob, src/lenticular-engine.ts:254-354.                       *)

\* A JavaScript number that may exceed 32 bits, as hi * 2^16 + lo with
\* 0 <= lo < 2^16.  hi is not bounded: hi >= 2^16 is a value of 2^32 or more.
Limb == 2^16

NumOf(v) == [hi |-> v \div Limb, lo |-> v % Limb]

NumAdd(a, b) == [hi |-> a.hi + b.hi + ((a.lo + b.lo) \div Limb),
                 lo |-> (a.lo + b.lo) % Limb]

NumTimes100(v) == [hi |-> (v \div Limb) * 100 + (((v % Limb) * 100) \div Limb),
                   lo |-> ((v % Limb) * 100) % Limb]

FitsUint32(num) == num.hi < Limb

\* A pixel density, density = whole + milli / 1000 pixels per inch.
\* Math.round(density * 100)
RoundTimes100(density) ==
    NumAdd(NumTimes100(density.whole), NumOf((density.milli + 5) \div 10))

\* view.setUint16(off, v, true): the low 16 bits of v, little endian.
SetUint16(buf, off, v) ==
    [buf EXCEPT ![off] = v % 256, ![off + 1] = (v \div 256) % 256]

\* view.setUint32(off, num, true): the low 32 bits of num, little endian.
SetUint32(buf, off, num) ==
    [buf EXCEPT ![off] = num.lo % 256,
                ![off + 1] = num.lo \div 256,
                ![off + 2] = num.hi % 256,
                ![off + 3] = (num.hi \div 256) % 256]

headerSize == 8
extraValuesSize == 8 + 8 + 6
tagCount == 12
ifdSize == 2 + (12 * 12) + 4

\* const rgbSize = pixelCount * 3
RgbSize(width, height) == (width * height) * 3

\* const fileSize = headerSize + rgbSize + extraValuesSize + ifdSize
FileSize(width, height) ==
    headerSize + RgbSize(width, height) + extraValuesSize + ifdSize

\* A slip: the out-of-line values left out of the offset of the IFD.
IfdOffsetNoExtras(width, height) == headerSize + RgbSize(width, height)

\* const ifdOffset = headerSize + rgbSize + extraValuesSize
IfdOffset(width, height) == headerSize + RgbSize(width, height) + extraValuesSize

\* 1. Header
WriteHeader(buf, width, height) ==
    LET b1 == SetUint16(buf, 0, 18761)
        b2 == SetUint16(b1, 2, 42)
    IN  SetUint32(b2, 4, NumOf(IfdOffset(width, height)))

\* A slip: the alpha byte copied with the others.
PixelSourceKeepsAlpha(ptr) == ptr

\* The source offset of the byte stored at pixels[ptr]: the loop reads
\* data[i], data[i+1], data[i+2] and skips data[i+3].
PixelSource(ptr) == 4 * (ptr \div 3) + (ptr % 3)

\* 2. Pixel Data (RGBA -> RGB): pixels is the view of rgbSize bytes at
\* pixelDataStart; for (i = 0; i < data.length; i += 4) pixels[ptr++] = ...
WritePixels(buf, pixelDataStart, rgbSize, data) ==
    [o \in DOMAIN buf |->
        IF o >= pixelDataStart /\ o < pixelDataStart + rgbSize
             /\ PixelSource(o - pixelDataStart) \in DOMAIN data
        THEN data[PixelSource(o - pixelDataStart)]
        ELSE buf[o]]

\* 3. Extra Values: one resolution rational at offset
WriteRational(buf, offset, density) ==
    SetUint32(SetUint32(buf, offset, RoundTimes100(density)),
              offset + 4, NumOf(100))

WriteBits(buf, offset) ==
    SetUint16(SetUint16(SetUint16(buf, offset, 8), offset + 2, 8), offset + 4, 8)

\* const writeTag = (tag, type, count, value) => { ... }
writeTag(buf, offset, tag, type, count, value) ==
    LET b1 == SetUint16(buf, offset, tag)
        b2 == SetUint16(b1, offset + 2, type)
        b3 == SetUint32(b2, offset + 4, NumOf(count))
    IN  SetUint32(b3, offset + 8, NumOf(value))

\* A slip: StripOffsets (273) written after SamplesPerPixel (277).
TagCallsSwapped(width, height, rgbSize, pixelDataStart, xResOffset, yResOffset, bitsOffset) ==
    << <<256, 4, 1, width>>,
       <<257, 4, 1, height>>,
       <<258, 3, 3, bitsOffset>>,
       <<259, 3, 1, 1>>,
       <<262, 3, 1, 2>>,
       <<277, 3, 1, 3>>,
       <<273, 4, 1, pixelDataStart>>,
       <<278, 4, 1, height>>,
       <<279, 4, 1, rgbSize>>,
       <<282, 5, 1, xResOffset>>,
       <<283, 5, 1, yResOffset>>,
       <<296, 3, 1, 2>> >>

\* The twelve writeTag calls, in the order of the source.
TagCalls(width, height, rgbSize, pixelDataStart, xResOffset, yResOffset, bitsOffset) ==
    << <<256, 4, 1, width>>,
       <<257, 4, 1, height>>,
       <<258, 3, 3, bitsOffset>>,
       <<259, 3, 1, 1>>,
       <<262, 3, 1, 2>>,
       <<273, 4, 1, pixelDataStart>>,
       <<277, 3, 1, 3>>,
       <<278, 4, 1, height>>,
       <<279, 4, 1, rgbSize>>,
       <<282, 5, 1, xResOffset>>,
       <<283, 5, 1, yResOffset>>,
       <<296, 3, 1, 2>> >>

RECURSIVE WriteTags(_, _, _, _)
WriteTags(buf, offset, calls, i) ==
    IF i > Len(calls) THEN buf
    ELSE WriteTags(writeTag(buf, offset, calls[i][1], calls[i][2],
                            calls[i][3], calls[i][4]),
                   offset + 12, calls, i + 1)

\* 4. IFD: the entry count, the entries, then the next-IFD offset (0).
WriteIfd(buf, offset, calls) ==
    LET b1 == SetUint16(buf, offset, tagCount)
        b2 == WriteTags(b1, offset + 2, calls, 1)
    IN  SetUint32(b2, offset + 2 + 12 * Len(calls), NumOf(0))

createTiffBlob(width, height, data, hppi, vppi) ==
    LET rgbSize == RgbSize(width, height)
        buffer == [o \in 0 .. FileSize(width, height) - 1 |-> 0]
        b1 == WriteHeader(buffer, width, height)
        pixelDataStart == headerSize
        b2 == WritePixels(b1, pixelDataStart, rgbSize, data)
        xResOffset == pixelDataStart + rgbSize
        b3 == WriteRational(b2, xResOffset, hppi)
        yResOffset == xResOffset + 8
        b4 == WriteRational(b3, yResOffset, vppi)
        bitsOffset == yResOffset + 8
        b5 == WriteBits(b4, bitsOffset)
    IN  WriteIfd(b5, bitsOffset + 6,
                 TagCalls(width, height, rgbSize, pixelDataStart,
                          xResOffset, yResOffset, bitsOffset))

\* The rasters the model encodes: width and height up to MaxDim, and RGBA
\* bytes that differ at every offset of the raster.
MaxDim == 2
MaxSeed == 2

ImageData(width, height, seed) ==
    [i \in 0 .. 4 * width * height - 1 |-> (seed * 51 + i * 17) % 256]

DensityValues ==
    { [whole |-> 72, milli |-> 0],      [whole |-> 300, milli |-> 0],
      [whole |-> 300, milli |-> 500],   [whole |-> 599, milli |-> 994],
      [whole |-> 42949673, milli |-> 0] }

TiffInit ==
    /\ tiffArgs \in [width : 1 .. MaxDim, height : 1 .. MaxDim,
                     seed : 0 .. MaxSeed,
                     hppi : DensityValues, vppi : DensityValues]
    /\ tiffPc = "ready"
    /\ tiffBytes = <<>>
    /\ FovIdle
    /\ GenIdle
    /\ SimIdle
    /\ ChartIdle
    /\ AppIdle

TiffEncode ==
    /\ tiffPc = "ready"
    /\ tiffBytes' = createTiffBlob(tiffArgs.width, tiffArgs.height,
                        ImageData(tiffArgs.width, tiffArgs.height, tiffArgs.seed),
                        tiffArgs.hppi, tiffArgs.vppi)
    /\ tiffPc' = "done"
    /\ UNCHANGED <<tiffArgs, fovVars, genVars, simVars, chartVars, app>>

TiffNext == TiffEncode

SpecTiff == TiffInit /\ [][TiffNext]_vars

---------------------------------------------------------------------------
(* generateLenticularImage, src/lenticular-engine.ts:7-175.                *)
(*                                                                         *)
(* A pixel of the canvas is the sequence of paints that make up its        *)
(* colour, oldest first.  A paint is [img, sx, sy, cov]: the raster it     *)
(* samples, the sampled position in the raster scaled to the content box,  *)
(* and the share cov = <<num, den>> of the pixel it covers.  A paint that  *)
(* covers the whole pixel replaces what was there; a paint through a clip  *)
(* edge that cuts the pixel is blended over it.  Strokes and mark          *)
(* backgrounds are kept as the list of drawing commands, canvas.marks.     *)

Min(a, b) == IF a < b THEN a ELSE b
Max(a, b) == IF a > b THEN a ELSE b

RECURSIVE Gcd(_, _)
Gcd(a, b) == IF b = 0 THEN a ELSE Gcd(b, a % b)

CeilDiv(a, b) == (a + b - 1) \div b

Reverse(seq) == [i \in 1 .. Len(seq) |-> seq[Len(seq) + 1 - i]]

(* IEEE 754 doubles, as far as Math.ceil((mm / 25.4) * ppi) needs them: a  *)
(* positive double is [m, e], the value m * 2^e with a significand m of 53  *)
(* bits, kept as limbs of 15 bits, lowest first.                           *)
DoubleLimb == 2^15

RECURSIVE BigOf(_)
BigOf(n) == IF n = 0 THEN << >> ELSE <<n % DoubleLimb>> \o BigOf(n \div DoubleLimb)

RECURSIVE BigTrim(_)
BigTrim(a) == IF Len(a) > 0 /\ a[Len(a)] = 0 THEN BigTrim(SubSeq(a, 1, Len(a) - 1)) ELSE a

RECURSIVE BigToInt(_)
BigToInt(a) == IF Len(a) = 0 THEN 0 ELSE a[1] + DoubleLimb * BigToInt(Tail(a))

RECURSIVE MulCarry(_, _, _, _)
MulCarry(a, s, i, carry) ==
    IF i > Len(a) THEN BigOf(carry)
    ELSE <<(a[i] * s + carry) % DoubleLimb>> \o MulCarry(a, s, i + 1, (a[i] * s + carry) \div DoubleLimb)

BigMulSmall(a, s) == BigTrim(MulCarry(a, s, 1, 0))

RECURSIVE BigDivRem(_, _, _, _)
BigDivRem(a, s, i, r) ==
    IF i = 0 THEN [q |-> << >>, r |-> r]
    ELSE LET cur == r * DoubleLimb + a[i]
             rest == BigDivRem(a, s, i - 1, cur % s)
         IN  [q |-> Append(rest.q, cur \div s), r |-> rest.r]

BigDivSmall(a, s) ==
    LET d == BigDivRem(a, s, Len(a), 0) IN [q |-> BigTrim(d.q), r |-> d.r]

RECURSIVE BitLenSmall(_)
BitLenSmall(n) == IF n = 0 THEN 0 ELSE 1 + BitLenSmall(n \div 2)

BigBitLen(a) == IF Len(a) = 0 THEN 0 ELSE 15 * (Len(a) - 1) + BitLenSmall(a[Len(a)])

RECURSIVE BigShl(_, _)
BigShl(a, n) == IF Len(a) = 0 THEN a
                ELSE IF n >= 15 THEN <<0>> \o BigShl(a, n - 15)
                ELSE BigMulSmall(a, 2^n)

RECURSIVE BigShr(_, _)
BigShr(a, n) == IF Len(a) = 0 THEN a
                ELSE IF n >= 15 THEN BigShr(Tail(a), n - 15)
                ELSE BigDivSmall(a, 2^n).q

RECURSIVE BigLowNonZero(_, _)
BigLowNonZero(a, n) == IF Len(a) = 0 \/ n = 0 THEN FALSE
                       ELSE IF n >= 15 THEN a[1] # 0 \/ BigLowNonZero(Tail(a), n - 15)
                       ELSE a[1] % (2^n) # 0

\* a >= b, for numbers without leading zero limbs
RECURSIVE BigGeqFrom(_, _, _)
BigGeqFrom(a, b, i) == IF i = 0 THEN TRUE
                       ELSE IF a[i] # b[i] THEN a[i] > b[i]
                       ELSE BigGeqFrom(a, b, i - 1)

BigGeq(a, b) == IF Len(a) # Len(b) THEN Len(a) > Len(b) ELSE BigGeqFrom(a, b, Len(a))

RECURSIVE SubBorrow(_, _, _, _)
SubBorrow(a, b, i, borrow) ==
    IF i > Len(a) THEN << >>
    ELSE LET d == a[i] - (IF i <= Len(b) THEN b[i] ELSE 0) - borrow
         IN  <<IF d < 0 THEN d + DoubleLimb ELSE d>> \o SubBorrow(a, b, i + 1, IF d < 0 THEN 1 ELSE 0)

BigSub(a, b) == BigTrim(SubBorrow(a, b, 1, 0))

BigAddSmall(a, s) == BigTrim(MulCarry(a, 1, 1, s))

\* The 53-bit significand nearest to a (a tie to the even one) and the
\* number of bits dropped; sticky says that bits below a were not zero.
RoundTo53(a, sticky) ==
    LET len == BigBitLen(a)
    IN  IF len <= 53 THEN [m |-> BigShl(a, 53 - len), shift |-> len - 53]
        ELSE LET n == len - 53
                 q1 == BigShr(a, n - 1)
                 st == sticky \/ BigLowNonZero(a, n - 1)
                 m0 == BigShr(q1, 1)
                 up == q1[1] % 2 = 1 /\ (st \/ m0[1] % 2 = 1)
                 m1 == IF up THEN BigAddSmall(m0, 1) ELSE m0
             IN  IF BigBitLen(m1) > 53 THEN [m |-> BigShr(m1, 1), shift |-> n + 1]
                 ELSE [m |-> m1, shift |-> n]

\* The double nearest to k / 10, as [m, e] with the value m * 2^e.
DoubleOfTenths(k) ==
    LET d == BigDivSmall(BigShl(BigOf(k), 64), 10)
        r == RoundTo53(d.q, d.r # 0)
    IN  [m |-> r.m, e |-> r.shift - 64]

\* steps bits of the quotient r / b by restoring division
RECURSIVE DivBits(_, _, _, _)
DivBits(q, r, b, steps) ==
    IF steps = 0 THEN [q |-> q, r |-> r]
    ELSE LET geq == BigGeq(r, b)
             q2 == IF geq THEN BigAddSmall(BigMulSmall(q, 2), 1) ELSE BigMulSmall(q, 2)
             r2 == IF geq THEN BigMulSmall(BigSub(r, b), 2) ELSE BigMulSmall(r, 2)
         IN  IF Len(q2) >= 0 /\ Len(r2) >= 0 THEN DivBits(q2, r2, b, steps - 1)
             ELSE [q |-> q2, r |-> r2]

\* a / b of two doubles, rounded to a double
DoubleDiv(a, b) ==
    LET d == DivBits(<< >>, a.m, b.m, 56)
        r == RoundTo53(d.q, Len(d.r) # 0)
    IN  [m |-> r.m, e |-> a.e - b.e - 55 + r.shift]

\* a * p, p a whole number below 2^15, rounded to a double
DoubleMulSmall(a, p) ==
    LET r == RoundTo53(BigMulSmall(a.m, p), FALSE)
    IN  [m |-> r.m, e |-> a.e + r.shift]

\* Math.ceil of a double
DoubleCeil(a) ==
    IF a.e >= 0 THEN BigToInt(BigShl(a.m, a.e))
    ELSE BigToInt(BigShr(a.m, -a.e)) + (IF BigLowNonZero(a.m, -a.e) THEN 1 ELSE 0)

\* Math.ceil((mm / 25.4) * ppi) as the doubles compute it, the length given
\* in tenths of a millimetre; DoubleOfTenths(254) is the literal 25.4
CeilOfDoubles(mmTenths, ppi) ==
    DoubleCeil(DoubleMulSmall(DoubleDiv(DoubleOfTenths(mmTenths),
                                        DoubleOfTenths(254)), ppi))

\* The lengths of the model that are a whole number of pixels, as <<tenths
\* of a millimetre, pixels per inch, Math.ceil((mm / 25.4) * ppi)>>:
\* 38.1 / 25.4 is 1.5000000000000002 in doubles and its double 3.0000000000000004,
\* 25.4 / 25.4 is 1.  CeilOfDoubles computes these values bit by bit.
WholePixelCeilings == { <<381, 2, 4>>, <<254, 2, 2>> }

\* Math.ceil((mm / 25.4) * ppi), the length given in tenths of a millimetre.
\* The two roundings move the product by less than 1e-15 of its value, and a
\* product that is not whole is at least 1/254 from a whole number, so its
\* ceiling is the exact one; a product that is whole exactly may come out a
\* hair above it, and the doubles decide.
CeilPx(mmTenths, ppi) ==
    IF mmTenths = 0 THEN 0
    ELSE IF (mmTenths * ppi) % 254 # 0 THEN CeilDiv(mmTenths * ppi, 254)
    ELSE (CHOOSE e \in WholePixelCeilings : e[1] = mmTenths /\ e[2] = ppi)[3]

Full == <<1, 1>>
Share(num, den) == <<num \div Gcd(num, den), den \div Gcd(num, den)>>

White == [img |-> "white", sx |-> 0, sy |-> 0, cov |-> Full]

\* The drawing state of a 2d context the calls set or read, as a new or a
\* resized canvas has it; lineWidth in tenths of a pixel.
ContextDefaults ==
    [fillStyle |-> "#000000", strokeStyle |-> "#000000", lineWidth |-> 10,
     font |-> "10px sans-serif"]

\* What ctx.fillRect paints on a pixel it covers
FillPaint(fillStyle) ==
    IF fillStyle = "#ffffff" THEN White
    ELSE [img |-> fillStyle, sx |-> 0, sy |-> 0, cov |-> Full]

\* ctx.stroke(): the paths of the marks drawn with the stroke style and the
\* line width the context has
Stroked(ctx, marks) ==
    [k \in 1 .. Len(marks) |->
        marks[k] @@ [strokeStyle |-> ctx.strokeStyle, lineWidth |-> ctx.lineWidth]]

\* lines 27-38: the pixel sizes of the content box and of the margins
Layout(settings) ==
    LET contentWidthPx == CeilPx(settings.widthMm, settings.hppi)
        contentHeightPx == CeilPx(settings.heightMm, settings.vppi)
        marginTopPx == CeilPx(settings.marginTopMm, settings.vppi)
        marginBottomPx == CeilPx(settings.marginBottomMm, settings.vppi)
        marginLeftPx == CeilPx(settings.marginLeftMm, settings.hppi)
        marginRightPx == CeilPx(settings.marginRightMm, settings.hppi)
    IN  [contentWidthPx |-> contentWidthPx,
         contentHeightPx |-> contentHeightPx,
         marginTopPx |-> marginTopPx,
         marginBottomPx |-> marginBottomPx,
         marginLeftPx |-> marginLeftPx,
         marginRightPx |-> marginRightPx,
         totalWidthPx |-> contentWidthPx + marginLeftPx + marginRightPx,
         totalHeightPx |-> contentHeightPx + marginTopPx + marginBottomPx]

\* lines 40-47: resize the canvas when its size differs, then fill it white.
\* (Setting canvas.width or canvas.height clears the canvas and resets the
\* drawing state; the fill covers every pixel and everything drawn before
\* either way.)
ResizeAndFill(cv, settings) ==
    LET g == Layout(settings)
        resized == cv.width # g.totalWidthPx \/ cv.height # g.totalHeightPx
        width == IF resized THEN g.totalWidthPx ELSE cv.width
        height == IF resized THEN g.totalHeightPx ELSE cv.height
        ctx == [(IF resized THEN ContextDefaults ELSE cv.ctx)
                   EXCEPT !.fillStyle = "#ffffff"]
    IN  [width |-> width, height |-> height,
         px |-> [X \in 0 .. width - 1 |-> [Y \in 0 .. height - 1 |->
                    <<FillPaint(ctx.fillStyle)>>]],
         marks |-> <<>>,
         ctx |-> ctx,
         allocations |-> cv.allocations + (IF resized THEN 1 ELSE 0)]

\* lines 50-61: every frame paired with its image, in the order of frames
ImgElements(frames) ==
    [i \in 1 .. Len(frames) |-> [img |-> frames[i].id, frame |-> frames[i]]]

\* A slip: a load that fails is not noticed.
RejectsNever(frames) == FALSE

\* lines 50-61: Promise.all rejects when one of its promises does: that of a
\* frame whose image is not in cachedImages and whose new Image fires onerror
Rejects(frames) ==
    \E i \in 1 .. Len(frames) : ~frames[i].cached /\ ~frames[i].srcLoads

\* A slip: the images reversed without the frame data they belong to.
SeqDataUnpaired(imgElements, direction) ==
    IF direction = "RL"
    THEN [i \in 1 .. Len(imgElements) |->
             [img |-> imgElements[Len(imgElements) + 1 - i].img,
              frame |-> imgElements[i].frame]]
    ELSE imgElements

\* line 65: const seqData = direction === 'RL' ? [...imgElements].reverse() : imgElements
SeqData(imgElements, direction) ==
    IF direction = "RL" THEN Reverse(imgElements) ELSE imgElements

\* line 70: const numLenses = Math.ceil(contentWidthPx / pPx), pPx = hppi / lpi
NumLenses(contentWidthPx, hppi, lpi) == CeilDiv(contentWidthPx * lpi, hppi)

\* Horizontal positions are counted in units of 1 / (lpi * N) pixel, N the
\* number of frames: pPx = hppi * N units, stripPx = hppi units.
\* A slip: the strip of every frame placed at the start of its lens.
DestXNoStripOffset(drawOffsetX, l, f, hppi, lpi, n) ==
    drawOffsetX * (lpi * n) + l * (hppi * n)

\* line 90: const destX = drawOffsetX + lensX + (f * stripPx), f from 0
DestX(drawOffsetX, l, f, hppi, lpi, n) ==
    drawOffsetX * (lpi * n) + l * (hppi * n) + f * hppi

\* line 92: const destW = stripPx
DestW(hppi, lpi, n) == hppi

\* The units of pixel column X inside the clip rect(destX, destY, destW, destH)
ClipOverlap(X, destX, destW, unit) ==
    Max(0, Min(destX + destW, (X + 1) * unit) - Max(destX, X * unit))

\* lines 86-106: the strip f of lens l: its clip rectangle and the place
\* the image of seqData[f] is drawn at.
Strip(l, f, entry, g, settings, n) ==
    [destX |-> DestX(g.marginLeftPx, l, f, settings.hppi, settings.lpi, n),
     destY |-> g.marginTopPx,
     destW |-> DestW(settings.hppi, settings.lpi, n),
     destH |-> g.contentHeightPx,
     img |-> entry.img,
     xPos |-> g.marginLeftPx + entry.frame.xOffset,
     yPos |-> g.marginTopPx + entry.frame.yOffset]

\* lines 82-86: the strips in the order the two loops visit them: for each
\* lens l < numLenses (with lensX < contentWidthPx), for each entry f.
Strips(seqData, g, settings) ==
    LET n == Len(seqData)
        numLenses == NumLenses(g.contentWidthPx, settings.hppi, settings.lpi)
        lenses == {l \in 0 .. numLenses - 1 :
                      l * settings.hppi < g.contentWidthPx * settings.lpi}
    IN  [k \in 1 .. Cardinality(lenses) * n |->
            Strip((k - 1) \div n, (k - 1) % n, seqData[((k - 1) % n) + 1],
                  g, settings, n)]

\* lines 95-110: what one strip paints on pixel (X, Y): the image, scaled to
\* the content box and drawn at (xPos, yPos), through the clip of the strip.
ClippedDraw(pixel, X, Y, strip, g, unit) ==
    LET overlap == ClipOverlap(X, strip.destX, strip.destW, unit)
        inClip == /\ overlap > 0
                  /\ Y >= strip.destY /\ Y < strip.destY + strip.destH
        inImage == /\ X >= strip.xPos /\ X < strip.xPos + g.contentWidthPx
                   /\ Y >= strip.yPos /\ Y < strip.yPos + g.contentHeightPx
        paint == [img |-> strip.img, sx |-> X - strip.xPos, sy |-> Y - strip.yPos,
                  cov |-> Share(overlap, unit)]
    IN  IF ~(inClip /\ inImage) THEN pixel
        ELSE IF paint.cov = Full THEN <<paint>>
        ELSE Append(pixel, paint)

RECURSIVE StripLoop(_, _, _, _, _, _, _)
StripLoop(pixel, X, Y, k, strips, g, unit) ==
    IF k > Len(strips) THEN pixel
    ELSE StripLoop(ClippedDraw(pixel, X, Y, strips[k], g, unit),
                   X, Y, k + 1, strips, g, unit)

\* lines 67-112
Interlace(cv, seqData, settings) ==
    LET g == Layout(settings)
        unit == settings.lpi * Len(seqData)
        strips == Strips(seqData, g, settings)
    IN  [cv EXCEPT !.px = [X \in 0 .. cv.width - 1 |-> [Y \in 0 .. cv.height - 1 |->
                              StripLoop(cv.px[X][Y], X, Y, 1, strips, g, unit)]]]

\* Positions of the marks are counted in units of 1 / (2 * lpi) pixel.
\* lines 122-139: drawPattern(centerX, yStart, height): a background of
\* 4 pitches, the center line and the pitch lines at 1 and 2 pitches.
drawPattern(centerX, yStart, height, settings) ==
    LET pPx == 2 * settings.hppi
    IN  [kind |-> "pattern", centerX |-> centerX, yStart |-> yStart,
         height |-> height,
         rect |-> <<centerX - 2 * pPx, centerX + 2 * pPx>>,
         lines |-> {centerX, centerX - pPx, centerX + pPx,
                    centerX - 2 * pPx, centerX + 2 * pPx}]

\* A slip: the patterns centred on the canvas instead of on the content.
MarginPatternsAtCanvasCentre(yStart, height, settings) ==
    LET g == Layout(settings)
        unit == 2 * settings.lpi
        pPx == 2 * settings.hppi
    IN  <<drawPattern(g.totalWidthPx * settings.lpi, yStart, height, settings)>> \o
        (IF settings.alignmentPos # "internal"
         THEN <<drawPattern(g.marginLeftPx * unit + pPx * 2, yStart, height, settings),
                drawPattern((g.marginLeftPx + g.contentWidthPx) * unit - pPx * 2,
                            yStart, height, settings)>>
         ELSE <<>>)

\* A slip: the patterns at the edges drawn in mode 'external' only.
MarginPatternsExternalOnly(yStart, height, settings) ==
    LET g == Layout(settings)
        unit == 2 * settings.lpi
        centerContentX == g.marginLeftPx * unit + g.contentWidthPx * settings.lpi
        pPx == 2 * settings.hppi
    IN  <<drawPattern(centerContentX, yStart, height, settings)>> \o
        (IF settings.alignmentPos = "external"
         THEN <<drawPattern(g.marginLeftPx * unit + pPx * 2, yStart, height, settings),
                drawPattern((g.marginLeftPx + g.contentWidthPx) * unit - pPx * 2,
                            yStart, height, settings)>>
         ELSE <<>>)

\* lines 141-156: the patterns of one margin
MarginPatterns(yStart, height, settings) ==
    LET g == Layout(settings)
        unit == 2 * settings.lpi
        centerContentX == g.marginLeftPx * unit + g.contentWidthPx * settings.lpi
        pPx == 2 * settings.hppi
    IN  <<drawPattern(centerContentX, yStart, height, settings)>> \o
        (IF settings.alignmentPos # "internal"
         THEN <<drawPattern(g.marginLeftPx * unit + pPx * 2, yStart, height, settings),
                drawPattern((g.marginLeftPx + g.contentWidthPx) * unit - pPx * 2,
                            yStart, height, settings)>>
         ELSE <<>>)

bracketLen == 20

\* lines 163-170: a crop mark: moveTo(from), lineTo(corner), lineTo(to)
CropMark(name, cx, cy, dx, dy) ==
    [kind |-> "crop", name |-> name, from |-> <<cx, cy + dy * bracketLen>>,
     corner |-> <<cx, cy>>, to |-> <<cx + dx * bracketLen, cy>>]

\* A slip: the line width of the patterns left as the context has it.
SetMarkStyleKeepingWidth(ctx) ==
    [ctx EXCEPT !.fillStyle = "#000000", !.strokeStyle = "#000000"]

\* lines 116-118: fillStyle and strokeStyle black, lineWidth 1
SetMarkStyle(ctx) ==
    [ctx EXCEPT !.fillStyle = "#000000", !.strokeStyle = "#000000",
                !.lineWidth = 10]

\* lines 125 and 159-160: the context at the crop marks: the fill style of
\* the last pattern, strokeStyle black, lineWidth 0.5
SetCropStyle(ctx, patterns) ==
    [ctx EXCEPT !.fillStyle = IF patterns # <<>> THEN "#eeeeee" ELSE @,
                !.strokeStyle = "#000000", !.lineWidth = 5]

\* lines 114-171
DrawMarks(cv, settings) ==
    LET g == Layout(settings)
        x0 == g.marginLeftPx
        y0 == g.marginTopPx
        x1 == g.marginLeftPx + g.contentWidthPx
        y1 == g.marginTopPx + g.contentHeightPx
        ctxMarks == SetMarkStyle(cv.ctx)
        patterns ==
            (IF g.marginTopPx > 0
             THEN MarginPatterns(0, g.marginTopPx, settings) ELSE <<>>)
            \o
            (IF g.marginBottomPx > 0
             THEN MarginPatterns(g.totalHeightPx - g.marginBottomPx,
                                 g.marginBottomPx, settings) ELSE <<>>)
        ctxCrop == SetCropStyle(ctxMarks, patterns)
    IN  IF ~(g.marginTopPx > 0 \/ g.marginBottomPx > 0) THEN cv
        ELSE [cv EXCEPT !.marks =
                Stroked(ctxMarks, patterns)
                \o
                Stroked(ctxCrop,
                    <<CropMark("TL", x0, y0, -1, -1), CropMark("TR", x1, y0, 1, -1),
                      CropMark("BL", x0, y1, -1, 1), CropMark("BR", x1, y1, 1, 1)>>),
              !.ctx = ctxCrop]

\* lines 63-174, the part of the call after the images have loaded
Render(cv, frames, settings) ==
    DrawMarks(Interlace(cv, SeqData(ImgElements(frames), settings.direction),
                        settings),
              settings)

\* The whole call on a canvas cv, when every image loads.
generateLenticularImage(cv, frames, settings) ==
    Render(ResizeAndFill(cv, settings), frames, settings)

\* canvas.toDataURL("image/png"): the size and the pixels of the canvas
toDataURL(cv) == [width |-> cv.width, height |-> cv.height,
                  px |-> cv.px, marks |-> cv.marks]

\* The calls of the model.  Lengths are in tenths of a millimetre.
MaxFrames == 3
\* The offsets <<xOffset, yOffset>> the i-th frame of a list may have.
FrameOffsets(i) == IF i % 2 = 1 THEN {<<0, 0>>, <<2, 0>>}
                                ELSE {<<0, 0>>, <<-1, 1>>}

FrameIds == <<"A", "B", "C", "D", "E", "F">>

\* A frame list of the given offsets; cached says which images are in
\* cachedImages, and srcLoads whether an Image given the frame's src fires
\* onload (or else onerror).  The last frame is in the cache, or loads from
\* its source, or fails to.
FrameList(n, off, last) ==
    [i \in 1 .. n |-> [id |-> FrameIds[i], xOffset |-> off[i][1],
                       yOffset |-> off[i][2],
                       cached |-> (last = "cached" \/ i < n),
                       srcLoads |-> (last # "fails" \/ i < n)]]

\* The frame lists: 2 to MaxFrames frames, each with an id of its own; cached
\* frames with every choice of offsets, and frames without offsets whose
\* last image is loaded from its source.
FrameLists ==
    UNION { { FrameList(n, off, "cached") :
                off \in {o \in [1 .. n -> FrameOffsets(1) \cup FrameOffsets(2)] :
                            \A i \in 1 .. n : o[i] \in FrameOffsets(i)} }
            \cup { FrameList(n, [i \in 1 .. n |-> <<0, 0>>], last) :
                      last \in {"loads", "fails"} } :
            n \in 2 .. MaxFrames }

\* Prints of 0.5 mm by 1 mm at 600 by 30 pixels per inch, without margins
\* or with a top margin, a left margin or both
GridSettings ==
    [widthMm : {5}, heightMm : {10}, hppi : {600}, vppi : {30},
     lpi : {60, 180}, marginTopMm : {0, 5}, marginBottomMm : {0},
     marginLeftMm : {0, 1}, marginRightMm : {0},
     alignmentPos : {"external", "internal"}, direction : {"LR", "RL"}]

PlainSettings ==
    [widthMm |-> 5, heightMm |-> 10, hppi |-> 600, vppi |-> 30, lpi |-> 60,
     marginTopMm |-> 0, marginBottomMm |-> 0, marginLeftMm |-> 0,
     marginRightMm |-> 0, alignmentPos |-> "external", direction |-> "LR"]

\* The other margins: the bottom one alone, the right one alone, all four
MarginSettings ==
    { [PlainSettings EXCEPT !.marginTopMm = m[1], !.marginBottomMm = m[2],
                            !.marginLeftMm = m[3], !.marginRightMm = m[4],
                            !.alignmentPos = pos] :
        m \in {<<0, 5, 0, 0>>, <<0, 0, 0, 1>>, <<5, 5, 1, 1>>},
        pos \in {"external", "internal", "edge-centered"} }

\* Heights and top margins that are a whole number of pixels: 38.1 mm at 2
\* pixels per inch is 3 pixels, 25.4 mm is 2
InchSettings ==
    { [PlainSettings EXCEPT !.heightMm = h, !.vppi = 2, !.marginTopMm = t] :
        h \in {381, 254}, t \in {0, 254} }

SettingsValues == GridSettings \cup MarginSettings \cup InchSettings

\* The calls: every frame list with every print that is not a whole number
\* of pixels high, and the first frame list with those that are
GenCalls ==
    [frames : FrameLists, settings : GridSettings \cup MarginSettings]
    \cup [frames : {FrameList(2, <<<<0, 0>>, <<0, 0>>>>, "cached")},
          settings : InchSettings]

\* A canvas that holds the output of an earlier call of the given size.
Stale == [img |-> "stale", sx |-> 0, sy |-> 0, cov |-> Full]

EarlierCanvas(width, height) ==
    [width |-> width, height |-> height,
     px |-> [X \in 0 .. width - 1 |-> [Y \in 0 .. height - 1 |-> <<Stale>>]],
     marks |-> <<[kind |-> "stale"]>>,
     ctx |-> ContextDefaults,
     allocations |-> 0]

\* The drawing state earlier calls leave: that of a canvas nothing was drawn
\* on, that after the marks of generateLenticularImage (line 160) and that
\* after the caption of generateCalibrationChart (lines 244-245)
LeftContexts ==
    { ContextDefaults,
      [ContextDefaults EXCEPT !.fillStyle = "#eeeeee", !.lineWidth = 5],
      [ContextDefaults EXCEPT !.font = "12px sans-serif"] }

\* The canvases a call of the given output size may find: one of another
\* size, or one of that size with the drawing state of an earlier call
PriorCanvases(width, height) ==
    { EarlierCanvas(3, 2) }
    \cup { [EarlierCanvas(width, height) EXCEPT !.ctx = c] : c \in LeftContexts }

GenInit ==
    /\ genArgs \in GenCalls
    /\ genPc = "ready"
    /\ canvas \in PriorCanvases(Layout(genArgs.settings).totalWidthPx,
                                 Layout(genArgs.settings).totalHeightPx)
    /\ genUrl = <<>>
    /\ FovIdle
    /\ TiffIdle
    /\ SimIdle
    /\ ChartIdle
    /\ AppIdle

\* lines 20-61: up to the await of the image loads
GenStart ==
    /\ genPc = "ready"
    /\ canvas' = ResizeAndFill(canvas, genArgs.settings)
    /\ genPc' = "loading"
    /\ UNCHANGED <<genArgs, genUrl, fovVars, tiffVars, simVars, chartVars, app>>

\* lines 63-174: every image is there, from the cache or loaded from its source
GenFinish ==
    /\ genPc = "loading"
    /\ ~Rejects(genArgs.frames)
    /\ canvas' = Render(canvas, genArgs.frames, genArgs.settings)
    /\ genUrl' = toDataURL(canvas')
    /\ genPc' = "done"
    /\ UNCHANGED <<genArgs, fovVars, tiffVars, simVars, chartVars, app>>

\* lines 55-61: an image that is not in the cache fires onerror, Promise.all
\* rejects and the call throws
GenReject ==
    /\ genPc = "loading"
    /\ Rejects(genArgs.frames)
    /\ genPc' = "failed"
    /\ UNCHANGED <<genArgs, canvas, genUrl, fovVars, tiffVars, simVars, chartVars, app>>

GenNext == GenStart \/ GenFinish \/ GenReject

SpecInterlace == GenInit /\ [][GenNext]_vars

---------------------------------------------------------------------------
(* renderSimulationFrame, src/physics.ts:47-189.                           *)
(*                                                                         *)
(* The simulation canvas is the sequence of the drawing commands applied   *)
(* to it since it was last cleared.  Lengths are in millimetres, simX is   *)
(* in hundredths, angles and t are fixed point, the width drawW of the     *)
(* drawn image is the fraction <<num, den>> of a pixel count.              *)

\* line 87: const step = 2
step == 2

\* line 88: const moveRangeMm = 600
moveRangeMm == 600

\* line 136: the pixel count from which the pixel pass is skipped
PixelBudget == 2000000

\* lines 60-63: clearRect and a black fillRect over the whole canvas
ClearSurface == << [op |-> "clearRect"], [op |-> "fillRect", style |-> "#000"] >>

\* lines 67-70: the message of the invalid configuration
ErrorText ==
    [op |-> "fillText", text |-> "INVALID PHYSICS PARAMETERS", style |-> "#ff4444"]

\* lines 74-82: drawW, the width of the image fitted into the canvas
DrawW(width, height, image) ==
    IF width * image.height > height * image.width
    THEN LET g == Gcd(height * image.width, image.height)
         IN  <<(height * image.width) \div g, image.height \div g>>
    ELSE <<width, 1>>

\* line 95: for (let x = 0; x < drawW; x += step)
Columns(drawW) == {x \in 0 .. (drawW[1] \div drawW[2]) : x % step = 0 /\ x * drawW[2] < drawW[1]}

\* A slip: the eye displacement counted from the left end of the range.
EyePhysXFromLeft(simX) == (simX * moveRangeMm) \div 100

\* line 89: const eyePhysX = (simX - 0.5) * moveRangeMm
EyePhysX(simX) == ((simX - 50) * moveRangeMm) \div 100

\* lines 96-99: vecX = (x / drawW - 0.5) * widthMm - eyePhysX, as the
\* fraction <<num, den>> with den = 2 * drawW[1]
VecX(x, drawW, widthMm, simX) ==
    << (2 * x * drawW[2] - drawW[1]) * widthMm - EyePhysX(simX) * 2 * drawW[1],
       2 * drawW[1] >>

\* line 102: Math.atan2(vecX, Math.abs(vecY)) with vecY = -dist, dist > 0
Atan2(vecX, dist) ==
    IF vecX[1] < 0 THEN -Atan(-vecX[1], dist * vecX[2])
    ELSE Atan(vecX[1], dist * vecX[2])

\* line 92: const fovRad = fovDegrees * Math.PI / 180
FovRad(fovDegrees) == (fovDegrees * PiFP) \div (180 * 100)

\* A slip: t left as it is, not wrapped.
WrappedTNotWrapped(angle, fovRad, direction) ==
    LET t == Quot(angle * FP, fovRad) + FP \div 2
    IN  IF direction = "RL" THEN FP - t ELSE t

\* lines 105-110: t = angle / fovRad + 0.5, mirrored for RL, wrapped to [0, 1)
WrappedT(angle, fovRad, direction) ==
    LET t == Quot(angle * FP, fovRad) + FP \div 2
        mirrored == IF direction = "RL" THEN FP - t ELSE t
    IN  mirrored % FP

\* A slip: the global alpha left at mix after the blend.
SlicesAlphaKept(x, t, numFrames, globalAlpha) ==
    LET frameFloat == t * (numFrames - 1)
        idx == frameFloat \div FP
        nextIdx == Min(idx + 1, numFrames - 1)
        mix == frameFloat % FP
    IN  << [op |-> "drawImage", img |-> idx, x |-> x, alpha |-> globalAlpha] >> \o
        (IF mix > FP \div 20
         THEN << [op |-> "globalAlpha", x |-> x, value |-> mix],
                 [op |-> "drawImage", img |-> nextIdx, x |-> x, alpha |-> mix] >>
         ELSE << >>)

\* lines 112-131: the commands of column x, the context having the given
\* global alpha: the slice of frame idx and, when mix > 0.05, the global
\* alpha set to mix, the slice of the next frame blended over and the global
\* alpha set to 1.  A slice is drawn with the global alpha of the context.
\* Frames are counted from 0 as in the source.
Slices(x, t, numFrames, globalAlpha) ==
    LET frameFloat == t * (numFrames - 1)
        idx == frameFloat \div FP
        nextIdx == Min(idx + 1, numFrames - 1)
        mix == frameFloat % FP
    IN  << [op |-> "drawImage", img |-> idx, x |-> x, alpha |-> globalAlpha] >> \o
        (IF mix > FP \div 20
         THEN << [op |-> "globalAlpha", x |-> x, value |-> mix],
                 [op |-> "drawImage", img |-> nextIdx, x |-> x, alpha |-> mix],
                 [op |-> "globalAlpha", x |-> x, value |-> FP] >>
         ELSE << >>)

\* The global alpha of the context after the commands
AlphaAfter(commands, globalAlpha) ==
    LET sets == SelectSeq(commands, LAMBDA c : c.op = "globalAlpha")
    IN  IF sets = << >> THEN globalAlpha ELSE sets[Len(sets)].value

\* lines 95-132: the columns from left to right, from column x on
RECURSIVE ColumnLoop(_, _, _, _, _)
ColumnLoop(x, drawW, fovDegrees, args, globalAlpha) ==
    IF x * drawW[2] >= drawW[1] THEN << >>
    ELSE LET commands ==
                 Slices(x,
                        WrappedT(Atan2(VecX(x, drawW, args.widthMm, args.simX),
                                       args.viewingDistanceMm),
                                 FovRad(fovDegrees), args.direction),
                        Len(args.images), globalAlpha)
         IN  commands
             \o ColumnLoop(x + step, drawW, fovDegrees, args,
                           AlphaAfter(commands, globalAlpha))

\* lines 136-178: the pass over the pixels (scanlines and channel offsets)
PixelPass(width, height) ==
    IF width * height < PixelBudget
    THEN << [op |-> "putImageData", scanline |-> <<95, 85>>,
             rOffset |-> -2, bOffset |-> 2] >>
    ELSE << >>

\* lines 181-188: the radial gradient multiplied over the canvas
Vignette == << [op |-> "fillRect", style |-> "radialGradient",
                composite |-> "multiply"] >>

renderSimulationFrame(args) ==
    LET fovDegrees == calculateFOV(args.lpi, args.radiusMicrons,
                                   args.thicknessMicrons, args.refractiveIndex)
    IN  IF Len(args.images) = 0 THEN ClearSurface
        ELSE IF fovDegrees <= 0 THEN ClearSurface \o <<ErrorText>>
        ELSE ClearSurface
             \o ColumnLoop(0, DrawW(args.width, args.height, args.images[1]),
                           fovDegrees, args, args.globalAlpha)
             \o PixelPass(args.width, args.height)
             \o Vignette

\* The calls of the model.  The context has the global alpha 1: that of a
\* new context, and no other code draws on the simulation canvas.
MaxSimFrames == 3

\* The canvas of the App (800 x 600) and canvases at the pixel budget.
SimCanvasSizes == { <<800, 600>>, <<1999, 1000>>, <<2000, 1000>> }

\* Frames of one size each list, tall enough to leave a few columns.
SimImageLists ==
    { [i \in 1 .. n |-> [width |-> 1, height |-> h]] :
        n \in 0 .. MaxSimFrames, h \in {150, 250} }

\* lpi, radius, thickness, index: a valid lens, a pitch above the diameter,
\* and a lens for which calculateFOV is negative.
SimLenses == { <<60, 2540, 4570, 15600>>, <<100, 1000, 4570, 15600>>,
               <<100, 2540, 30000, 15600>> }

SimInit ==
    /\ \E size \in SimCanvasSizes, lens \in SimLenses :
          simArgs \in [width : {size[1]}, height : {size[2]},
                       images : SimImageLists,
                       widthMm : {150, 200}, direction : {"LR", "RL"},
                       lpi : {lens[1]}, radiusMicrons : {lens[2]},
                       thicknessMicrons : {lens[3]}, refractiveIndex : {lens[4]},
                       viewingDistanceMm : {100, 600},
                       simX : {0, 25, 50, 100},
                       globalAlpha : {FP}]
    /\ simPc = "ready"
    /\ surface = << [op |-> "stale"] >>
    /\ FovIdle
    /\ TiffIdle
    /\ GenIdle
    /\ ChartIdle
    /\ AppIdle

SimRender ==
    /\ simPc = "ready"
    /\ surface' = renderSimulationFrame(simArgs)
    /\ simPc' = "done"
    /\ UNCHANGED <<simArgs, fovVars, tiffVars, genVars, chartVars, app>>

SimNext == SimRender

SpecSim == SimInit /\ [][SimNext]_vars

---------------------------------------------------------------------------
(* The pixel pass of renderSimulationFrame, src/physics.ts:136-178, byte   *)
(* by byte on small canvases.  The image data is a function from byte      *)
(* offsets to bytes; every byte of the result is kept with the offset of   *)
(* the snapshot it was read from.                                          *)

\* line 151: const rOffset = -2 * 4
rOffset == -2 * 4

\* line 152: const bOffset = 2 * 4
bOffset == 2 * 4

\* line 146: the scanline factor of row y, in hundredths
ScanlineFactor(y) == IF y % 2 = 0 THEN 95 ELSE 85

\* The store of byte * factor into a Uint8ClampedArray: the nearest integer,
\* a tie going to the even one (the products of a byte by 0.95 and by 0.85
\* are ties in doubles exactly when they are ties exactly)
ClampedProduct(byte, factor) ==
    LET scaled == byte * factor
        f == scaled \div 100
        rest == scaled % 100
    IN  IF rest > 50 THEN f + 1
        ELSE IF rest < 50 THEN f
        ELSE IF f % 2 = 0 THEN f ELSE f + 1

\* A slip: the shifted offset tested against the start of the array, not
\* against that of the row.
ShiftedSourceInArray(idx, offset, rowStart, width4) ==
    IF idx + offset >= 0 /\ idx + offset < rowStart + width4
    THEN idx + offset ELSE idx

\* lines 158-162 and 168-172: the offset of the snapshot a shifted channel
\* at offset idx reads: idx + offset when that lies in the row, else idx
ShiftedSource(idx, offset, rowStart, width4) ==
    IF idx + offset >= rowStart /\ idx + offset < rowStart + width4
    THEN idx + offset ELSE idx

\* lines 142-176: the image data after the two loops.  The byte at
\* rowStart + i + c of row y is channel c of the pixel the inner loop visits
\* at i; red (c = 0) and blue (c = 2) are read through their offsets, green
\* at its own place, each scaled by the factor of the row; alpha is not
\* written.
PixelEffects(width, height, copy) ==
    LET width4 == width * 4
    IN  [at \in 0 .. width4 * height - 1 |->
            LET y == at \div width4
                rowStart == y * width4
                i == ((at - rowStart) \div 4) * 4
                idx == rowStart + i
                c == at - idx
                src == IF c = 0
                       THEN ShiftedSource(idx, rOffset, rowStart, width4)
                       ELSE IF c = 2
                       THEN ShiftedSource(idx, bOffset, rowStart, width4) + 2
                       ELSE at
            IN  [src |-> src,
                 byte |-> IF c = 3 THEN copy[at]
                          ELSE ClampedProduct(copy[src], ScanlineFactor(y))]]

\* The canvases of the pass: up to MaxPassWidth by MaxPassHeight pixels
MaxPassWidth == 6
MaxPassHeight == 3

PassInit ==
    /\ simArgs \in [width : 1 .. MaxPassWidth, height : 1 .. MaxPassHeight,
                    seed : 0 .. MaxSeed]
    /\ simPc = "ready"
    /\ surface = << [op |-> "getImageData",
                     data |-> ImageData(simArgs.width, simArgs.height,
                                        simArgs.seed)] >>
    /\ FovIdle
    /\ TiffIdle
    /\ GenIdle
    /\ ChartIdle
    /\ AppIdle

\* lines 136-177: getImageData, the loops, putImageData
PassRun ==
    /\ simPc = "ready"
    /\ simArgs.width * simArgs.height < PixelBudget
    /\ surface' = << [op |-> "putImageData",
                      data |-> PixelEffects(simArgs.width, simArgs.height,
                                            surface[1].data)] >>
    /\ simPc' = "done"
    /\ UNCHANGED <<simArgs, fovVars, tiffVars, genVars, chartVars, app>>

PassNext == PassRun

SpecPass == PassInit /\ [][PassNext]_vars

---------------------------------------------------------------------------
(* generateCalibrationChart, src/lenticular-engine.ts:181-249.             *)
(*                                                                         *)
(* The chart is drawn on the canvas of the interlacer.  LPI values are in  *)
(* thousandths, printed values (toFixed(2)) in hundredths; the bands and    *)
(* the caption are kept as drawing commands in canvas.marks.               *)

\* Number.prototype.toFixed(2): the nearest hundredth, a tie to the larger
\* magnitude.
ToFixed2(v) == IF v < 0 THEN -((-v + 5) \div 10) ELSE (v + 5) \div 10

\* lines 197-208: resize the canvas when its size differs, then fill it white
ChartResizeAndFill(cv, settings) ==
    LET widthPx == CeilPx(settings.widthMm, settings.hppi)
        heightPx == CeilPx(settings.heightMm, settings.vppi)
        resized == cv.width # widthPx \/ cv.height # heightPx
        ctx == [(IF resized THEN ContextDefaults ELSE cv.ctx)
                   EXCEPT !.fillStyle = "#ffffff"]
    IN  [width |-> widthPx, height |-> heightPx,
         px |-> [X \in 0 .. widthPx - 1 |-> [Y \in 0 .. heightPx - 1 |->
                    <<FillPaint(ctx.fillStyle)>>]],
         marks |-> <<>>,
         ctx |-> [ctx EXCEPT !.fillStyle = "#000000"],
         allocations |-> cv.allocations + (IF resized THEN 1 ELSE 0)]

\* A slip: the bands counted down from the centre by the half rounded up.
StartLpiRoundedUp(centerLpi, stripCount, stepLpi) ==
    centerLpi - ((stripCount + 1) \div 2) * stepLpi

\* line 211: const startLpi = centerLpi - (Math.floor(stripCount / 2) * stepLpi)
StartLpi(centerLpi, stripCount, stepLpi) ==
    centerLpi - (stripCount \div 2) * stepLpi

\* line 214: const currentLpi = startLpi + (i * stepLpi)
CurrentLpi(startLpi, i, stepLpi) == startLpi + i * stepLpi

\* lines 218-227: the columns x = Math.round(j * pitchPx) of the lines of a
\* band, j < Math.ceil(widthPx / pitchPx), pitchPx = hppi / currentLpi
BandLines(widthPx, hppi, currentLpi) ==
    IF currentLpi <= 0 THEN {}
    ELSE { (2 * j * hppi * 1000 + currentLpi) \div (2 * currentLpi) :
             j \in 0 .. CeilDiv(widthPx * currentLpi, hppi * 1000) - 1 }

\* lines 232-240: the context after a band
AfterBand(ctx) ==
    [ctx EXCEPT !.font = "bold 16px monospace", !.fillStyle = "#000000"]

\* lines 213-241: band i: its lines from y = i * stripHeight down over
\* stripHeight = heightPx / stripCount (in 1 / stripCount px), filled with
\* the fill style the context has, and its label
Band(i, widthPx, heightPx, hppi, startLpi, stripCount, stepLpi, ctx) ==
    LET currentLpi == CurrentLpi(startLpi, i, stepLpi)
    IN  [kind |-> "band", i |-> i,
         y |-> <<i * heightPx, stripCount>>,
         stripHeight |-> <<heightPx, stripCount>>,
         lpi |-> currentLpi,
         lines |-> BandLines(widthPx, hppi, currentLpi),
         fillStyle |-> ctx.fillStyle,
         label |-> ToFixed2(currentLpi),
         font |-> AfterBand(ctx).font]

\* A slip: the range ended one step past the last band.
EndLpiPastLast(startLpi, stripCount, stepLpi) == startLpi + stripCount * stepLpi

\* line 243: startLpi + (stripCount-1)*stepLpi
EndLpi(startLpi, stripCount, stepLpi) == startLpi + (stripCount - 1) * stepLpi

\* lines 244-245: the context of the caption
AfterCaption(ctx) ==
    [ctx EXCEPT !.font = "12px sans-serif", !.fillStyle = "#000000"]

\* lines 243-246: `Calibration Chart | ${hppi} PPI | Range: ${start} - ${end} LPI`
Caption(hppi, startLpi, stripCount, stepLpi) ==
    [kind |-> "caption", hppi |-> hppi, start |-> ToFixed2(startLpi),
     end |-> ToFixed2(EndLpi(startLpi, stripCount, stepLpi))]

generateCalibrationChart(cv, settings, testSettings) ==
    LET filled == ChartResizeAndFill(cv, settings)
        startLpi == StartLpi(testSettings.centerLpi, testSettings.stripCount,
                             testSettings.stepLpi)
        ctxBands == IF testSettings.stripCount > 0 THEN AfterBand(filled.ctx)
                    ELSE filled.ctx
    IN  [filled EXCEPT !.marks =
            [k \in 1 .. testSettings.stripCount |->
                Band(k - 1, filled.width, filled.height, settings.hppi, startLpi,
                     testSettings.stripCount, testSettings.stepLpi,
                     IF k = 1 THEN filled.ctx ELSE AfterBand(filled.ctx))]
            \o << Caption(settings.hppi, startLpi, testSettings.stripCount,
                          testSettings.stepLpi)
                  @@ [font |-> AfterCaption(ctxBands).font,
                      fillStyle |-> AfterCaption(ctxBands).fillStyle] >>,
          !.ctx = AfterCaption(ctxBands)]

\* The calls of the model.
MaxStrips == 11

ChartSettingsValues ==
    [widthMm : {5}, heightMm : {10, 20}, hppi : {600}, vppi : {30}]

CalibrationValues ==
    [centerLpi : {200, 60000, 60500}, stripCount : 1 .. MaxStrips,
     stepLpi : {-100, 0, 100, 125}]

ChartInit ==
    /\ chartArgs \in [settings : ChartSettingsValues, testSettings : CalibrationValues]
    /\ chartPc = "ready"
    /\ chartUrl = <<>>
    /\ canvas \in PriorCanvases(CeilPx(chartArgs.settings.widthMm,
                                        chartArgs.settings.hppi),
                                 CeilPx(chartArgs.settings.heightMm,
                                        chartArgs.settings.vppi))
    /\ genArgs = <<>> /\ genPc = "idle" /\ genUrl = <<>>
    /\ FovIdle
    /\ TiffIdle
    /\ SimIdle
    /\ AppIdle

\* The function is async but awaits nothing: it runs to its return.
ChartGenerate ==
    /\ chartPc = "ready"
    /\ canvas' = generateCalibrationChart(canvas, chartArgs.settings,
                                          chartArgs.testSettings)
    /\ chartUrl' = toDataURL(canvas')
    /\ chartPc' = "done"
    /\ UNCHANGED <<chartArgs, genArgs, genPc, genUrl, fovVars, tiffVars, simVars, app>>

ChartNext == ChartGenerate

SpecChart == ChartInit /\ [][ChartNext]_vars

\* The three generation calls together: a call of generateLenticularImage,
\* of generateCalibrationChart or of createTiffBlob.
GenerateInit == GenInit \/ ChartInit \/ TiffInit

GenerateNext == GenNext \/ ChartNext \/ TiffNext

SpecGenerate == GenerateInit /\ [][GenerateNext]_vars

---------------------------------------------------------------------------
(* The App and its debounced generate(), src/index.tsx:139-147, 239-249,   *)
(* 322-360, 512-533.                                                       *)
(*                                                                         *)
(* app holds the React state the debounce effect depends on, the timer of  *)
(* the effect together with the values its callback closes over, and the   *)
(* generate() calls that have started and not yet returned.  The browser   *)
(* runs one task at a time (an event handler, a timer callback, a load     *)
(* event) and, before the next task, every continuation of an await on a   *)
(* promise that is already settled.                                        *)

\* The frames uploaded and the changes of settings or mode of a session
MaxUploads == 3
MaxEdits == 3

\* A slip: the image of an uploaded frame not put into imagesMap.
CacheImageSkipped(imagesMap, id) == imagesMap

\* lines 337-341: setImagesMap(prev => new Map(prev).set(id, img))
CacheImage(imagesMap, id) == imagesMap \cup {id}

\* The await of a started call is on settled promises only
Settled(call) == call.wait = "microtask"

\* No continuation is waiting: the browser may start the next task.
TaskMayStart(a) == \A c \in a.calls : ~Settled(c)

\* lines 239-249: the effect after a render in which frames, jobSettings,
\* calibrationSettings or appMode changed: the cleanup clears the old timer,
\* and a new one is set whose callback sees the values of this render.
Debounce(a) ==
    [a EXCEPT !.armed = TRUE,
              !.closure = [appMode |-> a.appMode, frames |-> a.frames,
                           imagesMap |-> a.imagesMap, edits |-> a.edits]]

\* lenticular-engine.ts:50-61: the load of a frame that is not in
\* cachedImages ends in a later task (onload or onerror); Promise.all over
\* cached images only is settled at once.
AwaitsLoad(frames, imagesMap) ==
    \E i \in 1 .. Len(frames) : frames[i] \notin imagesMap

\* lines 512-521: generate() up to its await, with the state its closure
\* holds (edits stands for jobSettings and calibrationSettings).
\* generateLenticularImage has resized and filled the canvas and awaits the
\* images; generateCalibrationChart has run to its return.  The canvas is
\* that of call n, complete once the call has drawn all of it.
generate(a, closure) ==
    LET call == [n |-> a.started + 1,
                 kind |-> IF closure.appMode = "compose" THEN "lenticular"
                          ELSE "chart",
                 wait |-> IF /\ closure.appMode = "compose"
                             /\ AwaitsLoad(closure.frames, closure.imagesMap)
                          THEN "task" ELSE "microtask",
                 inputs |-> [appMode |-> closure.appMode,
                             frames |-> closure.frames,
                             edits |-> closure.edits]]
    IN  [a EXCEPT !.started = @ + 1, !.calls = @ \cup {call},
                  !.canvas = [n |-> call.n, complete |-> call.kind = "chart"]]

AppInit ==
    /\ app = Debounce([appMode |-> "compose", frames |-> <<>>, imagesMap |-> {},
                       edits |-> 0, armed |-> FALSE,
                       closure |-> [appMode |-> "compose", frames |-> <<>>,
                                    imagesMap |-> {}, edits |-> 0],
                       calls |-> {}, started |-> 0,
                       canvas |-> [n |-> 0, complete |-> TRUE],
                       outputUrl |-> 0, outputOf |-> <<>>])
    /\ FovIdle
    /\ TiffIdle
    /\ GenIdle
    /\ SimIdle
    /\ ChartIdle

\* lines 328-360: img.onload of processFiles: the image goes into imagesMap
\* and the frame is appended; every frame is then in imagesMap, so the
\* effect of lines 218-237 starts no load.
AppFrameLoaded ==
    /\ TaskMayStart(app)
    /\ Len(app.frames) < MaxUploads
    /\ LET id == Len(app.frames) + 1
       IN  app' = Debounce([app EXCEPT !.imagesMap = CacheImage(@, id),
                                       !.frames = Append(@, id)])
    /\ UNCHANGED <<fovVars, tiffVars, genVars, simVars, chartVars>>

\* A change of jobSettings or of calibrationSettings
AppChangeSettings ==
    /\ TaskMayStart(app)
    /\ app.edits < MaxEdits
    /\ app' = Debounce([app EXCEPT !.edits = @ + 1])
    /\ UNCHANGED <<fovVars, tiffVars, genVars, simVars, chartVars>>

\* lines 322-326: handleModeChange to the other mode
AppModeChange ==
    /\ TaskMayStart(app)
    /\ app.edits < MaxEdits
    /\ app' = Debounce([app EXCEPT !.edits = @ + 1,
                                   !.appMode = IF @ = "compose" THEN "calibration"
                                               ELSE "compose"])
    /\ UNCHANGED <<fovVars, tiffVars, genVars, simVars, chartVars>>

\* lines 241-247: the callback of the timer, 600 ms after the last change
AppTimerFires ==
    /\ TaskMayStart(app)
    /\ app.armed
    /\ app' = IF app.closure.appMode = "compose" /\ Len(app.closure.frames) < 2
              THEN [app EXCEPT !.armed = FALSE]
              ELSE generate([app EXCEPT !.armed = FALSE], app.closure)
    /\ UNCHANGED <<fovVars, tiffVars, genVars, simVars, chartVars>>

\* lines 519-531: generate() after its await: at once when the promises
\* were settled, or else in the task of the load event, which may be
\* onerror; the strips and marks are drawn on the canvas as it is then, and
\* setOutputUrl is given the image returned.
Resumed(a, c, loaded) ==
    IF ~loaded THEN [a EXCEPT !.calls = @ \ {c}]
    ELSE [a EXCEPT !.calls = @ \ {c},
                   !.canvas = IF c.kind = "chart" THEN @
                              ELSE [n |-> c.n, complete |-> @.n = c.n],
                   !.outputUrl = c.n,
                   !.outputOf = c]

AppResume ==
    /\ \E c \in app.calls :
          /\ Settled(c) \/ TaskMayStart(app)
          /\ \E loaded \in BOOLEAN :
                /\ Settled(c) => loaded
                /\ app' = Resumed(app, c, loaded)
    /\ UNCHANGED <<fovVars, tiffVars, genVars, simVars, chartVars>>

AppNext ==
    \/ AppFrameLoaded
    \/ AppChangeSettings
    \/ AppModeChange
    \/ AppTimerFires
    \/ AppResume

SpecApp == AppInit /\ [][AppNext]_vars

---------------------------------------------------------------------------
(* The App of src/unnamed/part_000, lines 261-372: the same debounce and   *)
(* generate(), a handleModeChange that clears the output, and the pitch    *)
(* picked on the chart (selectedLpiFromChart, here whether it is set).     *)

LabInit ==
    /\ app = Debounce([appMode |-> "compose", frames |-> <<>>, imagesMap |-> {},
                       edits |-> 0, armed |-> FALSE,
                       closure |-> [appMode |-> "compose", frames |-> <<>>,
                                    imagesMap |-> {}, edits |-> 0],
                       calls |-> {}, started |-> 0,
                       canvas |-> [n |-> 0, complete |-> TRUE],
                       outputUrl |-> 0, outputOf |-> <<>>,
                       selectedLpiFromChart |-> FALSE])
    /\ FovIdle
    /\ TiffIdle
    /\ GenIdle
    /\ SimIdle
    /\ ChartIdle

\* part_000 363-367: img.onload of processFiles
LabFrameLoaded ==
    /\ TaskMayStart(app)
    /\ Len(app.frames) < MaxUploads
    /\ LET id == Len(app.frames) + 1
       IN  app' = Debounce([app EXCEPT !.imagesMap = CacheImage(@, id),
                                       !.frames = Append(@, id)])
    /\ UNCHANGED <<fovVars, tiffVars, genVars, simVars, chartVars>>

\* A change of jobSettings or of calibrationSettings
LabChangeSettings ==
    /\ TaskMayStart(app)
    /\ app.edits < MaxEdits
    /\ app' = Debounce([app EXCEPT !.edits = @ + 1])
    /\ UNCHANGED <<fovVars, tiffVars, genVars, simVars, chartVars>>

\* part_000 299-306: handleModeChange(mode), from the button of either mode:
\* the output and the picked pitch are cleared; the effect of lines 336-342
\* runs again when appMode has changed.
handleModeChange(a, mode) ==
    LET cleared == [a EXCEPT !.appMode = mode, !.outputUrl = 0,
                             !.outputOf = <<>>,
                             !.selectedLpiFromChart = FALSE,
                             !.edits = @ + 1]
    IN  IF mode # a.appMode THEN Debounce(cleared) ELSE cleared

LabModeChange ==
    /\ TaskMayStart(app)
    /\ app.edits < MaxEdits
    /\ \E mode \in {"compose", "calibration"} :
          app' = handleModeChange(app, mode)
    /\ UNCHANGED <<fovVars, tiffVars, genVars, simVars, chartVars>>

\* part_000 315-324: handleChartClick, a click on the image shown
LabChartClick ==
    /\ TaskMayStart(app)
    /\ app.appMode = "calibration" /\ app.outputUrl # 0
    /\ app' = [app EXCEPT !.selectedLpiFromChart = TRUE]
    /\ UNCHANGED <<fovVars, tiffVars, genVars, simVars, chartVars>>

\* part_000 326-332: applySelectedLpi: the picked pitch goes into
\* jobSettings and the mode is set to compose
applySelectedLpi(a) ==
    Debounce([a EXCEPT !.edits = @ + 1, !.appMode = "compose",
                       !.selectedLpiFromChart = FALSE])

LabApplySelectedLpi ==
    /\ TaskMayStart(app)
    /\ app.edits < MaxEdits
    /\ app.selectedLpiFromChart
    /\ app' = applySelectedLpi(app)
    /\ UNCHANGED <<fovVars, tiffVars, genVars, simVars, chartVars>>

\* part_000 337-340: the callback of the timer
LabTimerFires ==
    /\ TaskMayStart(app)
    /\ app.armed
    /\ app' = IF app.closure.appMode = "compose" /\ Len(app.closure.frames) < 2
              THEN [app EXCEPT !.armed = FALSE]
              ELSE generate([app EXCEPT !.armed = FALSE], app.closure)
    /\ UNCHANGED <<fovVars, tiffVars, genVars, simVars, chartVars>>

\* part_000 349-353: generate() after its await
LabResume ==
    /\ \E c \in app.calls :
          /\ Settled(c) \/ TaskMayStart(app)
          /\ \E loaded \in BOOLEAN :
                /\ Settled(c) => loaded
                /\ app' = Resumed(app, c, loaded)
    /\ UNCHANGED <<fovVars, tiffVars, genVars, simVars, chartVars>>

LabNext ==
    \/ LabFrameLoaded
    \/ LabChangeSettings
    \/ LabModeChange
    \/ LabChartClick
    \/ LabApplySelectedLpi
    \/ LabTimerFires
    \/ LabResume

SpecLab == LabInit /\ [][LabNext]_vars

---------------------------------------------------------------------------
\* A reader of the encoded file.
ReadUint16(buf, off) == buf[off] + 256 * buf[off + 1]

\* A 32-bit field as a number of two limbs.
ReadUint32(buf, off) == [hi |-> ReadUint16(buf, off + 2), lo |-> ReadUint16(buf, off)]

\* A 32-bit field known to be below 2^31.
ReadOffset(buf, off) == ReadUint16(buf, off) + Limb * ReadUint16(buf, off + 2)

IfdStart(buf) == ReadOffset(buf, 4)

EntryCount(buf) == ReadUint16(buf, IfdStart(buf))

\* The i-th entry of the IFD, i from 1.
Entry(buf, i) ==
    LET off == IfdStart(buf) + 2 + 12 * (i - 1)
    IN  [tag |-> ReadUint16(buf, off), type |-> ReadUint16(buf, off + 2),
         count |-> ReadOffset(buf, off + 4), value |-> ReadOffset(buf, off + 8)]

\* The value field of the entry with the given tag (-1: there is none).
TagValue(buf, tag) ==
    LET found == {i \in 1 .. EntryCount(buf) : Entry(buf, i).tag = tag}
    IN  IF found = {} THEN -1 ELSE Entry(buf, CHOOSE i \in found : TRUE).value

---------------------------------------------------------------------------
(* The claims.                                                             *)

TiffDone == tiffPc = "done"
TiffData == ImageData(tiffArgs.width, tiffArgs.height, tiffArgs.seed)
TiffPixelBytes == 3 * tiffArgs.width * tiffArgs.height

GenDone == genPc = "done"
GenLayout == Layout(genArgs.settings)
GenUnit == genArgs.settings.lpi * Len(genArgs.frames)
ZeroOffsets ==
    \A i \in 1 .. Len(genArgs.frames) :
        genArgs.frames[i].xOffset = 0 /\ genArgs.frames[i].yOffset = 0

\* The pixel of the canvas at column x, row y of the content box.
ContentPixel(x, y) ==
    canvas.px[GenLayout.marginLeftPx + x][GenLayout.marginTopPx + y]

\* floor((x mod p) / (p / N)) with p = hppi / lpi, as an index from 0.
ClaimedFrame(x) ==
    ((x * GenUnit) % (genArgs.settings.hppi * Len(genArgs.frames)))
        \div genArgs.settings.hppi

\* The strip, counted from 0 across the lenses, that holds position u / unit.
StripAt(u) == u \div genArgs.settings.hppi

\* The share of a pixel that the paints of image img have, in 1 / GenUnit.
RECURSIVE ShareOf(_, _, _)
ShareOf(pixel, img, j) ==
    IF j > Len(pixel) THEN 0
    ELSE (IF pixel[j].img = img
          THEN pixel[j].cov[1] * (GenUnit \div pixel[j].cov[2]) ELSE 0)
         + ShareOf(pixel, img, j + 1)

RECURSIVE ShareSum(_, _)
ShareSum(pixel, j) ==
    IF j > Len(pixel) THEN 0
    ELSE pixel[j].cov[1] * (GenUnit \div pixel[j].cov[2]) + ShareSum(pixel, j + 1)

InterlaceCase == GenDone /\ genArgs.settings.direction = "LR" /\ ZeroOffsets

\* C1 (as amended): with zero offsets and direction LR the strips are exactly
\* p/N wide, never rounded.  A content column that lies wholly inside one
\* strip shows frame floor((x mod p) / (p/N)) and nothing else, sampled at
\* its own position; a column cut by a strip boundary is painted, over the
\* white background, by the frames of the strips that overlap it, in the
\* order of the strips, and their shares add up to the whole pixel.  With
\* N=2, lpi=60, hppi=600 column 2 shows frame 0 and column 7 shows frame 1.
C1_WholeColumnsShowClaimedFrame ==
    InterlaceCase =>
        \A x \in 0 .. GenLayout.contentWidthPx - 1 :
        \A y \in 0 .. GenLayout.contentHeightPx - 1 :
            LET first == StripAt(x * GenUnit)
                last == StripAt((x + 1) * GenUnit - 1)
                n == Len(genArgs.frames)
                pixel == IF first = last THEN ContentPixel(x, y)
                         ELSE Tail(ContentPixel(x, y))
            IN  /\ first < last => Head(ContentPixel(x, y)) = White
                /\ Len(pixel) = last - first + 1
                /\ \A j \in 1 .. Len(pixel) :
                      /\ pixel[j].img = genArgs.frames[((first + j - 1) % n) + 1].id
                      /\ pixel[j].sx = x /\ pixel[j].sy = y
                /\ ShareSum(pixel, 1) = GenUnit
                /\ first = last =>
                      pixel = <<[img |-> genArgs.frames[ClaimedFrame(x) + 1].id,
                                 sx |-> x, sy |-> y, cov |-> Full]>>

\* C1, witness: the call of the claim's example is done; 5 pixel strips,
\* column 2 shows frame 0 and column 7 shows frame 1.
C1_Witness ==
    /\ InterlaceCase
    /\ Len(genArgs.frames) = 2
    /\ genArgs.settings.lpi = 60 /\ genArgs.settings.hppi = 600
    /\ GenLayout.marginLeftPx > 0
    /\ ContentPixel(2, 0) = <<[img |-> genArgs.frames[1].id, sx |-> 2, sy |-> 0,
                               cov |-> Full]>>
    /\ ContentPixel(7, 0) = <<[img |-> genArgs.frames[2].id, sx |-> 7, sy |-> 0,
                               cov |-> Full]>>

\* C1 (as stated): every content column x shows frame floor((x mod p)/(p/N)):
\* read in the claim's favour, no other frame has a larger share of the pixel.
C1_EveryColumnShowsClaimedFrame ==
    InterlaceCase =>
        \A x \in 0 .. GenLayout.contentWidthPx - 1 :
        \A i \in 1 .. Len(genArgs.frames) :
            ShareOf(ContentPixel(x, 0), genArgs.frames[ClaimedFrame(x) + 1].id, 1)
                >= ShareOf(ContentPixel(x, 0), genArgs.frames[i].id, 1)

\* C2: the canvas and the returned image of a call with direction RL are
\* those of the call with the frame list reversed and direction LR.
C2_RLIsReversedLR ==
    GenDone /\ genArgs.settings.direction = "RL" =>
        LET reversed == generateLenticularImage(canvas, Reverse(genArgs.frames),
                            [genArgs.settings EXCEPT !.direction = "LR"])
        IN  /\ toDataURL(canvas) = toDataURL(reversed)
            /\ genUrl = toDataURL(reversed)

\* C2, witness: a finished RL call on three frames with offsets of their
\* own, whose output differs from the LR output of the same list.
C2_Witness ==
    /\ GenDone /\ genArgs.settings.direction = "RL"
    /\ Len(genArgs.frames) = 3
    /\ genArgs.frames[1].xOffset # genArgs.frames[3].xOffset
    /\ genArgs.frames[1].yOffset # genArgs.frames[2].yOffset
    /\ canvas.px # generateLenticularImage(canvas, genArgs.frames,
                        [genArgs.settings EXCEPT !.direction = "LR"]).px

\* C3: the buffer is 8 + 3wh + 22 + 150 bytes: the header ('II', 42, the
\* offset of the IFD = 8 + 3wh + 22), the pixel bytes from offset 8,
\* XResolution (8), YResolution (8), BitsPerSample (6), then the IFD, which
\* ends where the file ends; the parsed ImageWidth and ImageLength are w, h.
C3_Layout ==
    TiffDone =>
        LET b == tiffBytes
            n == TiffPixelBytes
        IN  /\ DOMAIN b = 0 .. (8 + n + 22 + 150 - 1)
            /\ b[0] = 73 /\ b[1] = 73
            /\ ReadUint16(b, 2) = 42
            /\ ReadUint32(b, 4) = NumOf(8 + n + 22)
            /\ TagValue(b, 273) = 8
            /\ TagValue(b, 279) = n
            /\ TagValue(b, 282) = 8 + n
            /\ TagValue(b, 283) = 8 + n + 8
            /\ TagValue(b, 258) = 8 + n + 8 + 8
            /\ IfdStart(b) = 8 + n + 8 + 8 + 6
            /\ IfdStart(b) + 2 + 12 * EntryCount(b) + 4 = 8 + n + 22 + 150
            /\ TagValue(b, 256) = tiffArgs.width
            /\ TagValue(b, 257) = tiffArgs.height

\* C3, witness: a 2x2 raster is encoded and its header parses to 2 and 2.
C3_Witness ==
    /\ TiffDone /\ tiffArgs.width = 2 /\ tiffArgs.height = 2
    /\ TagValue(tiffBytes, 256) = 2 /\ TagValue(tiffBytes, 257) = 2
    /\ IfdStart(tiffBytes) = 42

ExpectedEntries ==
    << <<256, tiffArgs.width>>, <<257, tiffArgs.height>>,
       <<258, 8 + TiffPixelBytes + 16>>, <<259, 1>>, <<262, 2>>, <<273, 8>>,
       <<277, 3>>, <<278, tiffArgs.height>>, <<279, TiffPixelBytes>>,
       <<282, 8 + TiffPixelBytes>>, <<283, 8 + TiffPixelBytes + 8>>,
       <<296, 2>> >>

\* C4: the IFD holds exactly 12 entries, their tags strictly ascending
\* (256 ... 296) with the values of the claim; BitsPerSample points at the
\* three 16-bit values 8, 8, 8; a 4-byte zero follows the last entry.
C4_IfdEntries ==
    TiffDone =>
        LET b == tiffBytes
        IN  /\ EntryCount(b) = 12
            /\ \A i \in 1 .. 12 :
                  /\ Entry(b, i).tag = ExpectedEntries[i][1]
                  /\ Entry(b, i).value = ExpectedEntries[i][2]
            /\ \A i \in 1 .. 11 : Entry(b, i).tag < Entry(b, i + 1).tag
            /\ \A j \in 0 .. 2 : ReadUint16(b, TagValue(b, 258) + 2 * j) = 8
            /\ ReadUint32(b, IfdStart(b) + 2 + 12 * 12) = NumOf(0)

\* C4, witness: the IFD of an encoded 2x1 raster, with 12 entries.
C4_Witness ==
    /\ TiffDone /\ tiffArgs.width = 2 /\ tiffArgs.height = 1
    /\ EntryCount(tiffBytes) = 12
    /\ Entry(tiffBytes, 1).value = 2 /\ Entry(tiffBytes, 2).value = 1

\* C5: the byte at 8 + 3k + c is the source byte at 4k + c, for every pixel
\* k and channel c of R, G, B; so the pixel section has no padding, and no
\* byte of it is an alpha byte of the source.
C5_PixelBytes ==
    TiffDone =>
        /\ \A k \in 0 .. tiffArgs.width * tiffArgs.height - 1 :
           \A c \in 0 .. 2 :
               tiffBytes[8 + 3 * k + c] = TiffData[4 * k + c]
        /\ \A o \in 8 .. 8 + TiffPixelBytes - 1 :
           \A k \in 0 .. tiffArgs.width * tiffArgs.height - 1 :
               tiffBytes[o] # TiffData[4 * k + 3]

\* C5, witness: a 2x2 raster is encoded; the byte after the first RGB
\* triplet is the red byte of the second pixel.
C5_Witness ==
    /\ TiffDone /\ tiffArgs.width = 2 /\ tiffArgs.height = 2
    /\ tiffBytes[8 + 3] = TiffData[4]
    /\ TiffData[4] # TiffData[3]

\* C6 (as stated): XResolution is stored as (round(hppi * 100), 100) and
\* YResolution as (round(vppi * 100), 100), as little-endian 32-bit values,
\* and the entries 282 and 283 point at these pairs.
C6_ResolutionRationals ==
    TiffDone =>
        LET b == tiffBytes
        IN  /\ Entry(b, 10) = [tag |-> 282, type |-> 5, count |-> 1,
                               value |-> 8 + TiffPixelBytes]
            /\ Entry(b, 11) = [tag |-> 283, type |-> 5, count |-> 1,
                               value |-> 8 + TiffPixelBytes + 8]
            /\ ReadUint32(b, TagValue(b, 282)) = RoundTimes100(tiffArgs.hppi)
            /\ ReadUint32(b, TagValue(b, 282) + 4) = NumOf(100)
            /\ ReadUint32(b, TagValue(b, 283)) = RoundTimes100(tiffArgs.vppi)
            /\ ReadUint32(b, TagValue(b, 283) + 4) = NumOf(100)

\* C7 (as stated): a call in which a computed size does not fit its 32-bit
\* field is rejected before a byte is written: no call ends with a buffer
\* written when 3wh, the IFD offset or round(density * 100) is 2^32 or more.
C7_OverflowRejected ==
    TiffDone /\ tiffBytes # <<>> =>
        /\ FitsUint32(NumOf(RgbSize(tiffArgs.width, tiffArgs.height)))
        /\ FitsUint32(NumOf(IfdOffset(tiffArgs.width, tiffArgs.height)))
        /\ FitsUint32(RoundTimes100(tiffArgs.hppi))
        /\ FitsUint32(RoundTimes100(tiffArgs.vppi))

FovDone == fovPc = "done"
FovPitch == Pitch(fovArgs.lpi)
FovValid == /\ fovArgs.lpi > 0 /\ fovArgs.radiusMicrons > 0
            /\ fovArgs.thicknessMicrons > 0 /\ fovArgs.refractiveIndex >= FP

\* The guards before the thickness guard let the call through.
FovPastDiameter ==
    /\ ~RadiusOrPitchGuard(FovPitch, fovArgs.radiusMicrons)
    /\ ~DiameterGuard(FovPitch, fovArgs.radiusMicrons)

\* h = thickness - sagitta
FovH == fovArgs.thicknessMicrons - Sagitta(FovPitch, fovArgs.radiusMicrons)

\* sinI = n * sin(R) / 1.0003
FovSinI ==
    SnellSine(fovArgs.refractiveIndex,
              HalfAngle(FovPitch, fovArgs.radiusMicrons) - Atan(FovPitch, FovH))

\* The full cone angle 2 * (A - I)
FovCone ==
    2 * (HalfAngle(FovPitch, fovArgs.radiusMicrons) - Asin(FovSinI))

\* C8 (as stated): for lpi > 0 and radius > 0 the result is in [0, 180].
C8_FovInRange ==
    FovDone /\ fovArgs.lpi > 0 /\ fovArgs.radiusMicrons > 0 =>
        fovResult >= 0 /\ fovResult <= 180 * 100

\* C9 (as amended): for valid arguments the result is 0 whenever the pitch
\* exceeds 2 * radius; with pitch <= 2 * radius the result is 0 only when
\* h <= 0, when |sinI| > 1 or when the cone angle 2 * (A - I) is itself 0.
C9_ZeroWhenPitchExceedsDiameter ==
    FovDone /\ FovValid =>
        /\ FovPitch > 2 * fovArgs.radiusMicrons => fovResult = 0
        /\ fovResult = 0 /\ FovPitch <= 2 * fovArgs.radiusMicrons =>
              \/ FovH <= 0
              \/ Abs(FovSinI) > FP
              \/ ToDegrees(FovCone) = 0

\* C9, witness: a finished call with valid arguments and pitch > 2 * radius.
C9_Witness ==
    /\ FovDone /\ FovValid
    /\ FovPitch > 2 * fovArgs.radiusMicrons
    /\ fovResult = 0

\* C9 (as stated): for valid arguments the result is 0 exactly when the
\* pitch exceeds 2 * radius.
C9_ZeroExactlyWhenPitchExceedsDiameter ==
    FovDone /\ FovValid =>
        (fovResult = 0 <=> FovPitch > 2 * fovArgs.radiusMicrons)

\* C10: every degenerate configuration ends the call with the value 0:
\* radius <= 0, pitch <= 0 (lpi <= 0 included), pitch > 2 * radius,
\* h = thickness - sagitta <= 0, and |n * sin(R) / 1.0003| > 1.  (The call
\* has no other way to end: it always yields a number.)
C10_DegenerateIsZero ==
    FovDone =>
        /\ fovResult \in Int
        /\ fovArgs.radiusMicrons <= 0 => fovResult = 0
        /\ FovPitch <= 0 \/ fovArgs.lpi <= 0 => fovResult = 0
        /\ FovPitch > 2 * fovArgs.radiusMicrons => fovResult = 0
        /\ FovPastDiameter /\ FovH <= 0 => fovResult = 0
        /\ FovPastDiameter /\ FovH > 0 /\ Abs(FovSinI) > FP => fovResult = 0

\* C10, witness: a finished call that the first three guards let through
\* and that ends in total internal reflection.
C10_Witness ==
    /\ FovDone /\ FovPastDiameter /\ FovH > 0
    /\ Abs(FovSinI) > FP
    /\ fovResult = 0

SimDone == simPc = "done"
SimFov == calculateFOV(simArgs.lpi, simArgs.radiusMicrons,
                       simArgs.thicknessMicrons, simArgs.refractiveIndex)
SimDrawW == DrawW(simArgs.width, simArgs.height, simArgs.images[1])

\* The commands of the surface with the given op, in their order.
SurfaceOps(kind) == SelectSeq(surface, LAMBDA c : c.op = kind)

\* The slices drawn at column x, in their order.
SlicesAt(x) == SelectSeq(SurfaceOps("drawImage"), LAMBDA c : c.x = x)

HasVignette ==
    \E i \in 1 .. Len(surface) :
        surface[i].op = "fillRect" /\ surface[i].style = "radialGradient"

\* The slices of a column that maps to the midpoint (N - 1) / 2 of N frames:
\* frame floor((N - 1) / 2) and, for an even N, the next frame at weight 0.5.
MidpointSlices(x) ==
    LET n == Len(simArgs.images)
    IN  << [op |-> "drawImage", img |-> (n - 1) \div 2, x |-> x, alpha |-> FP] >> \o
        (IF n % 2 = 0
         THEN << [op |-> "drawImage", img |-> n \div 2, x |-> x, alpha |-> FP \div 2] >>
         ELSE << >>)

SimCentered ==
    /\ SimDone /\ Len(simArgs.images) > 0 /\ SimFov > 0
    /\ simArgs.simX = 50 /\ simArgs.direction = "LR"

\* C11 (as stated): with an empty frame list, and with a FOV <= 0, the call
\* draws the error indicator, no frame slice and no post-effect.
C11_FailsVisibly ==
    SimDone /\ (Len(simArgs.images) = 0 \/ SimFov <= 0) =>
        /\ Len(SurfaceOps("fillText")) = 1
        /\ Len(SurfaceOps("drawImage")) = 0
        /\ Len(SurfaceOps("putImageData")) = 0
        /\ ~HasVignette

\* C12 (as amended): at simX = 0.5 with direction LR the column at the
\* horizontal centre of the drawn image (x = drawW / 2, when it is a rendered
\* column) maps to t = 0.5, the fractional index (N - 1) / 2, for every
\* widthMm; the other columns map to an index that depends on widthMm.
C12_CentreColumnAtMidpoint ==
    SimCentered =>
        \A x \in Columns(SimDrawW) :
            2 * x * SimDrawW[2] = SimDrawW[1] => SlicesAt(x) = MidpointSlices(x)

\* C12, witness: a centred LR call on three frames whose centre column is
\* rendered and shows frame 1 alone.
C12_Witness ==
    /\ SimCentered /\ Len(simArgs.images) = 3
    /\ SimDrawW = <<4, 1>>
    /\ SlicesAt(2) = << [op |-> "drawImage", img |-> 1, x |-> 2, alpha |-> FP] >>

\* C12 (as stated): at simX = 0.5 with direction LR every rendered column
\* maps to the midpoint index (N - 1) / 2.
C12_EveryColumnAtMidpoint ==
    SimCentered =>
        \A x \in Columns(SimDrawW) : SlicesAt(x) = MidpointSlices(x)

\* C13 (as stated): the scanline and channel pass and the vignette are
\* applied only below the budget of 2,000,000 pixels; at or above it the
\* surface holds the blended slices and nothing else.
C13_EffectsOnlyBelowBudget ==
    SimDone /\ simArgs.width * simArgs.height >= PixelBudget =>
        /\ Len(SurfaceOps("putImageData")) = 0
        /\ ~HasVignette

ChartDone == chartPc = "done"
ChartBands == SelectSeq(canvas.marks, LAMBDA c : c.kind = "band")
ChartCaption == SelectSeq(canvas.marks, LAMBDA c : c.kind = "caption")

\* C14: the chart has stripCount bands, band i from y = i * heightPx /
\* stripCount over the height heightPx / stripCount, its LPI centerLpi +
\* (i - floor(stripCount / 2)) * stepLpi; the band floor(stripCount / 2) has
\* centerLpi; for 60, 0.1 and 11 the bands are 59.5, 59.6, ..., 60.5.
C14_Bands ==
    ChartDone =>
        LET n == chartArgs.testSettings.stripCount
            c == chartArgs.testSettings.centerLpi
            d == chartArgs.testSettings.stepLpi
        IN  /\ Len(ChartBands) = n
            /\ \A i \in 0 .. n - 1 :
                  /\ ChartBands[i + 1].i = i
                  /\ ChartBands[i + 1].y = <<i * canvas.height, n>>
                  /\ ChartBands[i + 1].stripHeight = <<canvas.height, n>>
                  /\ ChartBands[i + 1].lpi = c + (i - n \div 2) * d
            /\ ChartBands[n \div 2 + 1].lpi = c
            /\ c = 60000 /\ d = 100 /\ n = 11 =>
                  [i \in 1 .. 11 |-> ChartBands[i].label]
                      = <<5950, 5960, 5970, 5980, 5990, 6000,
                          6010, 6020, 6030, 6040, 6050>>

\* C14, witness: the chart of 60, 0.1 and 11 is drawn; its first band is
\* 59.5, its last 60.5.
C14_Witness ==
    /\ ChartDone
    /\ chartArgs.testSettings = [centerLpi |-> 60000, stripCount |-> 11,
                                 stepLpi |-> 100]
    /\ ChartBands[1].lpi = 59500 /\ ChartBands[11].lpi = 60500

\* C15: the caption reports hppi and a range that starts at the printed LPI
\* of band 0 and ends at the printed LPI of band stripCount - 1.
C15_CaptionRange ==
    ChartDone =>
        /\ Len(ChartCaption) = 1
        /\ ChartCaption[1].hppi = chartArgs.settings.hppi
        /\ ChartCaption[1].start = ChartBands[1].label
        /\ ChartCaption[1].end = ChartBands[chartArgs.testSettings.stripCount].label

\* C15, witness: a chart of an even number of bands with a step whose
\* printed values are rounded; the caption ends above its start.
C15_Witness ==
    /\ ChartDone
    /\ chartArgs.testSettings.stripCount = 4
    /\ chartArgs.testSettings.stepLpi = 125
    /\ ChartCaption[1].start = 5975 /\ ChartCaption[1].end = 6013

\* The exact ceiling of (mm / 25.4) * ppi, the length in tenths of a millimetre
ExactCeilPx(mmTenths, ppi) == CeilDiv(mmTenths * ppi, 254)

ExactWidthPx(settings) ==
    ExactCeilPx(settings.widthMm, settings.hppi)
    + ExactCeilPx(settings.marginLeftMm, settings.hppi)
    + ExactCeilPx(settings.marginRightMm, settings.hppi)

ExactHeightPx(settings) ==
    ExactCeilPx(settings.heightMm, settings.vppi)
    + ExactCeilPx(settings.marginTopMm, settings.vppi)
    + ExactCeilPx(settings.marginBottomMm, settings.vppi)

\* The whole-pixel ceilings of the model are those the doubles compute.
CeilingsAreOfDoubles ==
    \A e \in WholePixelCeilings : e[3] = CeilOfDoubles(e[1], e[2])

\* C16 (as stated): the call leaves the canvas as wide as the ceilings of
\* the content width and of the left and right margins together, as high as
\* those of the content height and of the top and bottom margins, and it
\* allocates the canvas anew exactly when that size differs from the size
\* the canvas had (the ceilings computed by the model being those of the
\* doubles).
C16_SizeIsSumOfCeilings ==
    [][(genPc = "ready" /\ genPc' = "loading" /\ CeilingsAreOfDoubles) =>
          /\ canvas'.width = ExactWidthPx(genArgs.settings)
          /\ canvas'.height = ExactHeightPx(genArgs.settings)
          /\ (canvas'.allocations = canvas.allocations + 1)
                <=> (\/ canvas.width # ExactWidthPx(genArgs.settings)
                     \/ canvas.height # ExactHeightPx(genArgs.settings))
          /\ canvas'.allocations \in {canvas.allocations, canvas.allocations + 1}]_vars

\* A call whose load of an uncached frame fails
LoadFails ==
    \E i \in 1 .. Len(genArgs.frames) :
        ~genArgs.frames[i].cached /\ ~genArgs.frames[i].srcLoads

\* C17: a call with a frame that is not in the cache and whose source fails
\* to load never completes and never returns an image: it ends by throwing.
C17_MissingRasterFails ==
    (genPc # "idle" /\ LoadFails) =>
        /\ genPc # "done"
        /\ genUrl = <<>>

\* C17, witness: a call of three frames, the last one neither cached nor
\* loadable, has thrown; the canvas was resized and filled before.
C17_Witness ==
    /\ genPc = "failed"
    /\ LoadFails
    /\ Len(genArgs.frames) = 3
    /\ genArgs.frames[1].cached /\ genArgs.frames[2].cached
    /\ genUrl = <<>>

(* C18: each generation call is idempotent: the same call run on any other
   canvas of before, or once more on the canvas it left, returns the same
   image; createTiffBlob returns the same bytes for the same raster. *)
C18_Idempotent ==
    /\ genPc = "done" =>
          \A cv \in PriorCanvases(canvas.width, canvas.height) \cup {canvas} :
              toDataURL(generateLenticularImage(cv, genArgs.frames,
                                                genArgs.settings)) = genUrl
    /\ chartPc = "done" =>
          \A cv \in PriorCanvases(canvas.width, canvas.height) \cup {canvas} :
              toDataURL(generateCalibrationChart(cv, chartArgs.settings,
                                                 chartArgs.testSettings)) = chartUrl
    /\ tiffPc = "done" =>
          createTiffBlob(tiffArgs.width, tiffArgs.height,
                         ImageData(tiffArgs.width, tiffArgs.height, tiffArgs.seed),
                         tiffArgs.hppi, tiffArgs.vppi) = tiffBytes

\* C18, witness: a call that drew marks on a canvas it did not resize, which
\* still has the font an earlier chart left on it.
C18_Witness ==
    /\ genPc = "done"
    /\ canvas.allocations = 0
    /\ canvas.ctx.font = "12px sans-serif"
    /\ canvas.ctx.lineWidth = 5
    /\ Len(canvas.marks) > 4

\* The registration pattern centred on the content is among the marks, over
\* the rows from yStart down: a background of 4 pitches, the center tick and
\* the ticks at 1 and 2 pitches on each side (in units of 1 / (2 * lpi) px).
CentredPattern(yStart, height) ==
    LET g == Layout(genArgs.settings)
        pPx == 2 * genArgs.settings.hppi
        centre == (2 * g.marginLeftPx + g.contentWidthPx) * genArgs.settings.lpi
    IN  \E k \in 1 .. Len(canvas.marks) :
            /\ canvas.marks[k].kind = "pattern"
            /\ canvas.marks[k].centerX = centre
            /\ canvas.marks[k].yStart = yStart
            /\ canvas.marks[k].height = height
            /\ canvas.marks[k].rect = <<centre - 2 * pPx, centre + 2 * pPx>>
            /\ canvas.marks[k].lines = {centre - 2 * pPx, centre - pPx, centre,
                                        centre + pPx, centre + 2 * pPx}

TopPattern == CentredPattern(0, Layout(genArgs.settings).marginTopPx)

BottomPattern ==
    CentredPattern(Layout(genArgs.settings).totalHeightPx
                       - Layout(genArgs.settings).marginBottomPx,
                   Layout(genArgs.settings).marginBottomPx)

AnyMargin ==
    \/ genArgs.settings.marginTopMm > 0 \/ genArgs.settings.marginBottomMm > 0
    \/ genArgs.settings.marginLeftMm > 0 \/ genArgs.settings.marginRightMm > 0

\* C20 (as amended): the centred pattern is drawn in the top margin exactly
\* when the top margin is positive and in the bottom margin exactly when the
\* bottom margin is positive; with neither, nothing is drawn on the canvas
\* besides the strips, whatever the left and right margins are.
C20_PatternInEachPositiveMargin ==
    genPc = "done" =>
        /\ TopPattern <=> genArgs.settings.marginTopMm > 0
        /\ BottomPattern <=> genArgs.settings.marginBottomMm > 0
        /\ (genArgs.settings.marginTopMm = 0 /\ genArgs.settings.marginBottomMm = 0)
              => canvas.marks = <<>>

\* C20, witness: a finished call with a bottom margin alone has the bottom
\* pattern and no top one; the content starts at the left edge.
C20_Witness ==
    /\ genPc = "done"
    /\ genArgs.settings.marginTopMm = 0
    /\ genArgs.settings.marginBottomMm > 0
    /\ BottomPattern /\ ~TopPattern

\* C20 (as stated): whenever one of the four margins is positive, the
\* centred pattern is drawn in the top and in the bottom margin.
C20_PatternsWheneverAnyMargin ==
    (genPc = "done" /\ AnyMargin) => (TopPattern /\ BottomPattern)

\* C19: the App never has two generate() calls in flight on the canvas.
C19_AtMostOneWriter ==
    (app # <<>>) => Cardinality(app.calls) <= 1

\* C19, witness: a lenticular call is in flight, started by the timer after
\* three uploads, a change of settings and two changes of mode, and an
\* earlier call has returned its image.
C19_Witness ==
    /\ app # <<>>
    /\ \E c \in app.calls : c.kind = "lenticular"
    /\ Len(app.frames) = 3
    /\ app.edits = 3
    /\ app.outputUrl > 0

\* The patterns among the marks of the canvas that start at row yStart, in
\* the order they were drawn
PatternsFrom(yStart) ==
    SelectSeq(canvas.marks, LAMBDA m : m.kind = "pattern" /\ m.yStart = yStart)

\* A pattern centred at centre (in units of 1 / (2 * lpi) px, a pitch being
\* 2 * hppi units): background of 4 pitches, ticks at 0, 1 and 2 pitches on
\* each side, stroked black with line width 1.
PatternAt(centre, yStart, height) ==
    [kind |-> "pattern", centerX |-> centre, yStart |-> yStart, height |-> height,
     rect |-> <<centre - 4 * genArgs.settings.hppi, centre + 4 * genArgs.settings.hppi>>,
     lines |-> {centre + i * 2 * genArgs.settings.hppi : i \in -2 .. 2},
     strokeStyle |-> "#000000", lineWidth |-> 10]

\* The patterns the claim gives the margin that starts at yStart: the centred
\* one, and unless the mode is 'internal' one centred 2 pitches right of the
\* left content edge and one 2 pitches left of the right content edge.
ModePatterns(yStart, height) ==
    LET g == Layout(genArgs.settings)
        unit == 2 * genArgs.settings.lpi
        left == g.marginLeftPx * unit
        right == (g.marginLeftPx + g.contentWidthPx) * unit
        twoPitches == 4 * genArgs.settings.hppi
    IN  <<PatternAt((left + right) \div 2, yStart, height)>> \o
        (IF genArgs.settings.alignmentPos = "internal" THEN <<>>
         ELSE <<PatternAt(left + twoPitches, yStart, height),
                PatternAt(right - twoPitches, yStart, height)>>)

\* C21: in the top margin and in the bottom margin, when it is positive, mode
\* 'internal' yields the centred pattern alone and the modes 'external' and
\* 'edge-centered' yield the centred pattern and two patterns like it,
\* centred 2 pitches inward from the left and the right content edge.
C21_PatternsOfEachMode ==
    genPc = "done" =>
        LET g == Layout(genArgs.settings)
            yBottom == g.totalHeightPx - g.marginBottomPx
        IN  /\ g.marginTopPx > 0 =>
                  PatternsFrom(0) = ModePatterns(0, g.marginTopPx)
            /\ g.marginBottomPx > 0 =>
                  PatternsFrom(yBottom) = ModePatterns(yBottom, g.marginBottomPx)

\* C21, witness: a finished call in mode 'edge-centered' with all four
\* margins has three patterns in each of the top and the bottom margin, and
\* one in mode 'internal' has one in each.
C21_Witness ==
    /\ genPc = "done"
    /\ Layout(genArgs.settings).marginTopPx > 0
    /\ Layout(genArgs.settings).marginBottomPx > 0
    /\ Layout(genArgs.settings).marginLeftPx > 0
    /\ genArgs.settings.alignmentPos = "edge-centered"
    /\ Len(PatternsFrom(0)) = 3
    /\ Len(PatternsFrom(Layout(genArgs.settings).totalHeightPx
                            - Layout(genArgs.settings).marginBottomPx)) = 3
    /\ PatternsFrom(0)[2].centerX # PatternsFrom(0)[3].centerX

\* A crop bracket is among the marks: a path from the end of a vertical arm
\* to the corner (cx, cy) and on to the end of a horizontal arm, each arm 20
\* px long, the vertical one towards dy (-1 up, 1 down) and the horizontal
\* one towards dx (-1 left, 1 right).
CropBracket(cx, cy, dx, dy) ==
    \E k \in 1 .. Len(canvas.marks) :
        /\ canvas.marks[k].kind = "crop"
        /\ canvas.marks[k].corner = <<cx, cy>>
        /\ canvas.marks[k].from = <<cx, cy + dy * 20>>
        /\ canvas.marks[k].to = <<cx + dx * 20, cy>>

\* The four brackets at the corners of the content box, arms outward
FourCropBrackets ==
    LET g == Layout(genArgs.settings)
        x0 == g.marginLeftPx
        y0 == g.marginTopPx
        x1 == g.marginLeftPx + g.contentWidthPx
        y1 == g.marginTopPx + g.contentHeightPx
    IN  /\ CropBracket(x0, y0, -1, -1)
        /\ CropBracket(x1, y0, 1, -1)
        /\ CropBracket(x0, y1, -1, 1)
        /\ CropBracket(x1, y1, 1, 1)

\* C22 (as stated): whenever one of the four margins is positive, the
\* finished call has drawn a crop bracket at each corner of the content box,
\* each arm 20 px long and pointing outward, whatever hppi and vppi are.
C22_CropBracketsWheneverAnyMargin ==
    (genPc = "done" /\ AnyMargin) => FourCropBrackets

\* The byte of channel c of the pixel at column x, row y after the pass, and
\* the offset of that channel in the image data
PassByte(x, y, c) == surface[1].data[4 * (y * simArgs.width + x) + c]
PassOffset(x, y, c) == 4 * (y * simArgs.width + x) + c

\* The snapshot the pass read: the image data of before
PassCopy == ImageData(simArgs.width, simArgs.height, simArgs.seed)

\* C23: after the pass, red of every pixel (x, y) was read from column x - 2
\* and blue from column x + 2 of row y of the snapshot, or from column x
\* itself when that column is outside [0, width); no byte was read from
\* another row, and alpha is the byte of before.
C23_ChannelsReadWithinRow ==
    simPc = "done" =>
        \A y \in 0 .. simArgs.height - 1 :
        \A x \in 0 .. simArgs.width - 1 :
            LET redX == IF x - 2 >= 0 THEN x - 2 ELSE x
                blueX == IF x + 2 < simArgs.width THEN x + 2 ELSE x
            IN  /\ PassByte(x, y, 0).src = PassOffset(redX, y, 0)
                /\ PassByte(x, y, 2).src = PassOffset(blueX, y, 2)
                /\ \A c \in 0 .. 3 :
                      PassByte(x, y, c).src \div (4 * simArgs.width) = y
                /\ PassByte(x, y, 3).src = PassOffset(x, y, 3)
                /\ PassByte(x, y, 3).byte = PassCopy[PassOffset(x, y, 3)]

\* C23, witness: a finished pass over 3 rows of 5 pixels: the first pixel of
\* row 1 read its own red although 2 pixels before it lies the end of row 0,
\* its last pixel read its own blue, and the pixel in the middle read red
\* from column 0 and blue from column 4.
C23_Witness ==
    /\ simPc = "done"
    /\ simArgs.width = 5 /\ simArgs.height = 3
    /\ PassByte(0, 1, 0).src = PassOffset(0, 1, 0)
    /\ PassByte(4, 1, 2).src = PassOffset(4, 1, 2)
    /\ PassByte(2, 1, 0).src = PassOffset(0, 1, 0)
    /\ PassByte(2, 1, 2).src = PassOffset(4, 1, 2)
    /\ PassByte(2, 1, 0).byte # PassCopy[PassOffset(0, 1, 0)]

SimRendered == SimDone /\ Len(simArgs.images) > 0 /\ SimFov > 0

\* The fraction t of column x after the wrap, in units of 1 / FP
ColumnT(x) ==
    WrappedT(Atan2(VecX(x, SimDrawW, simArgs.widthMm, simArgs.simX),
                   simArgs.viewingDistanceMm),
             FovRad(SimFov), simArgs.direction)

\* The settings of the global alpha made at column x, in their order
AlphaSetsAt(x) ==
    SelectSeq(SurfaceOps("globalAlpha"), LAMBDA c : c.x = x)

\* C24: at every rendered column t is in [0, 1); frame idx = floor(t * (N - 1))
\* is drawn with alpha 1; frame min(idx + 1, N - 1) is drawn over it with
\* alpha mix = t * (N - 1) - idx exactly when mix > 0.05, and otherwise
\* nothing else is drawn at the column; the global alpha is 1 after the column.
C24_BlendAboveThreshold ==
    SimRendered =>
        \A x \in Columns(SimDrawW) :
            LET n == Len(simArgs.images)
                t == ColumnT(x)
                idx == (t * (n - 1)) \div FP
                mix == t * (n - 1) - idx * FP
                base == [op |-> "drawImage", img |-> idx, x |-> x, alpha |-> FP]
                over == [op |-> "drawImage", img |-> Min(idx + 1, n - 1), x |-> x,
                         alpha |-> mix]
                sets == AlphaSetsAt(x)
            IN  /\ 0 <= t /\ t < FP
                /\ 20 * mix > FP => SlicesAt(x) = <<base, over>>
                /\ 20 * mix <= FP => SlicesAt(x) = <<base>> /\ sets = << >>
                /\ sets # << >> => sets[Len(sets)].value = FP

\* C24, witness: a finished call on three frames that blended at one column
\* and then drew a later column from one frame alone.
C24_Witness ==
    /\ SimRendered /\ Len(simArgs.images) = 3
    /\ \E x \in Columns(SimDrawW), z \in Columns(SimDrawW) :
          /\ x < z
          /\ Len(SlicesAt(x)) = 2 /\ SlicesAt(x)[2].alpha < FP
          /\ Len(SlicesAt(z)) = 1 /\ SlicesAt(z)[1].alpha = FP

\* C25: the frames read at every rendered column have indices idx and
\* nextIdx with 0 <= idx <= nextIdx <= N - 1, also for a single frame.
C25_FrameIndicesInRange ==
    SimRendered =>
        /\ \A k \in 1 .. Len(SurfaceOps("drawImage")) :
              /\ 0 <= SurfaceOps("drawImage")[k].img
              /\ SurfaceOps("drawImage")[k].img <= Len(simArgs.images) - 1
        /\ \A x \in Columns(SimDrawW) :
              /\ Len(SlicesAt(x)) \in {1, 2}
              /\ Len(SlicesAt(x)) = 2 => SlicesAt(x)[1].img <= SlicesAt(x)[2].img

\* C25, witness: a finished RL call on a single frame, seen from the left
\* end of the range, drew frame 0 at its columns and nothing else; its t
\* before the wrap is outside [0, 1).
C25_Witness ==
    /\ SimRendered /\ Len(simArgs.images) = 1
    /\ simArgs.simX = 0 /\ simArgs.direction = "RL"
    /\ Len(SurfaceOps("drawImage")) = Cardinality(Columns(SimDrawW))
    /\ \A k \in 1 .. Len(SurfaceOps("drawImage")) : SurfaceOps("drawImage")[k].img = 0
    /\ \E x \in Columns(SimDrawW) :
          LET raw == WrappedTNotWrapped(
                         Atan2(VecX(x, SimDrawW, simArgs.widthMm, simArgs.simX),
                               simArgs.viewingDistanceMm),
                         FovRad(SimFov), simArgs.direction)
          IN  raw < 0 \/ raw >= FP

\* Column X, row Y of the canvas lies in the content box
InContentBox(X, Y) ==
    /\ X >= GenLayout.marginLeftPx
    /\ X < GenLayout.marginLeftPx + GenLayout.contentWidthPx
    /\ Y >= GenLayout.marginTopPx
    /\ Y < GenLayout.marginTopPx + GenLayout.contentHeightPx

\* C26 (as stated): after the call every pixel of the canvas outside the
\* content box holds the white background and no paint of a frame, whatever
\* the offsets of the frames and the pitch are.
C26_FramesStayInContentBox ==
    genPc = "done" =>
        \A X \in 0 .. canvas.width - 1 :
        \A Y \in 0 .. canvas.height - 1 :
            ~InContentBox(X, Y) => canvas.px[X][Y] = <<White>>

\* The canvas is as an earlier call left it: its allocation, its pixels and
\* its marks are those of before the call.
CanvasAsBefore ==
    /\ canvas.allocations = 0
    /\ \A X \in 0 .. canvas.width - 1 :
       \A Y \in 0 .. canvas.height - 1 : canvas.px[X][Y] = <<Stale>>
    /\ canvas.marks = <<[kind |-> "stale"]>>

\* C27 (as stated): a call that has failed leaves the canvas as it was before
\* the call, with the same size and the same pixels.
C27_FailedCallKeepsCanvas ==
    genPc = "failed" => CanvasAsBefore

\* No generate() call is in flight and no debounce timer is pending
Quiescent == app.calls = {} /\ ~app.armed

\* The output shown and the canvas are those of the most recently started call
LastCallShown ==
    /\ app.outputUrl = app.started
    /\ app.outputOf.n = app.started
    /\ app.canvas = [n |-> app.started, complete |-> TRUE]

\* The output shown was generated from the frames, settings and mode the
\* App has
ShownIsLatest ==
    app.outputOf.inputs = [appMode |-> app.appMode, frames |-> app.frames,
                           edits |-> app.edits]

\* C28 (as stated): once every started call has completed and no timer is
\* pending, the output shown and the canvas are those of the most recently
\* started generation, which is that of the latest frames, settings and mode.
C28_LatestGenerationShown ==
    (Quiescent /\ app.started > 0) => (LastCallShown /\ ShownIsLatest)

\* C29 (as stated): in the encoded file the offset of the IFD in the header
\* and the value offsets of BitsPerSample (258), XResolution (282) and
\* YResolution (283) are even, for every width and height.
C29_OffsetsWordAligned ==
    TiffDone =>
        /\ IfdStart(tiffBytes) % 2 = 0
        /\ TagValue(tiffBytes, 258) % 2 = 0
        /\ TagValue(tiffBytes, 282) % 2 = 0
        /\ TagValue(tiffBytes, 283) % 2 = 0

\* C30 (as stated): whenever an output is shown, it was produced by
\* generateLenticularImage if the mode is 'compose' and by
\* generateCalibrationChart if the mode is 'calibration'.
C30_OutputMatchesMode ==
    app.outputUrl # 0 =>
        /\ app.appMode = "compose" => app.outputOf.kind = "lenticular"
        /\ app.appMode = "calibration" => app.outputOf.kind = "chart"

===========================================================================
